---- MODULE Spec2Model ----
(***************************************************************************)
(* Distributed elevator control system: the controller's registry, call    *)
(* routing and per-car queues (controller.c), the car's shared block with  *)
(* its main loop and link threads (car.c), the safety monitor (safety.c)   *)
(* and the internal panel (internal.c).                                     *)
(*                                                                         *)
(* Floor labels are sequences of one-character strings, so that parsing    *)
(* and formatting are computed the way strtol and snprintf compute them.   *)
(* A critical section that holds a mutex from lock to unlock without       *)
(* waiting is one action; a thread's program counter records which         *)
(* critical section it runs next.                                          *)
(***************************************************************************)
EXTENDS Integers, Sequences, FiniteSets, TLC

(***************************************************************************)
(* Bounds of the model.  MAX_QUEUE is 32 in controller.c:40; the queue is   *)
(* scaled down so that a full queue is reachable with the few floors of    *)
(* the model.  Connections 1..MaxCarConn are the sockets cars connect on,  *)
(* the remaining MaxCallConn are the sockets of call clients.              *)
(***************************************************************************)
MAX_CARS == 16

MAX_QUEUE == 3

MaxCarConn == 2

MaxCallConn == 1

ConnIds == 1..(MaxCarConn + MaxCallConn)

CarConns == 1..MaxCarConn

CallConns == ConnIds \ CarConns

Slots == 0..(MAX_CARS - 1)

(***************************************************************************)
(* Floor codec: floor_num_handler and index_handler.                        *)
(***************************************************************************)
Digits == {"0", "1", "2", "3", "4", "5", "6", "7", "8", "9"}

DigitVal(c) ==
    CASE c = "0" -> 0 [] c = "1" -> 1 [] c = "2" -> 2 [] c = "3" -> 3
      [] c = "4" -> 4 [] c = "5" -> 5 [] c = "6" -> 6 [] c = "7" -> 7
      [] c = "8" -> 8 [] c = "9" -> 9

DigitChar(n) ==
    CASE n = 0 -> "0" [] n = 1 -> "1" [] n = 2 -> "2" [] n = 3 -> "3"
      [] n = 4 -> "4" [] n = 5 -> "5" [] n = 6 -> "6" [] n = 7 -> "7"
      [] n = 8 -> "8" [] n = 9 -> "9"

\* The number of leading decimal digits of s.
RECURSIVE DigitPrefix(_)
DigitPrefix(s) ==
    IF s = <<>> \/ Head(s) \notin Digits THEN 0 ELSE 1 + DigitPrefix(Tail(s))

\* The value of the first n characters of s, all digits.
RECURSIVE DigitsValue(_, _)
DigitsValue(s, n) ==
    IF n = 0 THEN 0 ELSE DigitsValue(s, n - 1) * 10 + DigitVal(s[n])

\* strtol(s, &end, 10) on a token without white space: an optional sign, then
\* the longest run of digits; used = 0 (end == s) when no digit follows.
strtol(s) ==
    LET signed == s # <<>> /\ Head(s) \in {"+", "-"}
        body == IF signed THEN Tail(s) ELSE s
        n == DigitPrefix(body)
        v == DigitsValue(body, n)
    IN  [used |-> IF n = 0 THEN 0 ELSE n + (IF signed THEN 1 ELSE 0),
         val |-> IF signed /\ Head(s) = "-" THEN 0 - v ELSE v]

floor_num_handler(f) ==
    IF f = <<>> THEN [ok |-> FALSE, out |-> 0]
    ELSE IF Head(f) \in {"b", "B"}
         THEN LET r == strtol(Tail(f))
              IN  IF r.used = 0 \/ r.val < 1 \/ r.val > 99
                  THEN [ok |-> FALSE, out |-> 0]
                  ELSE [ok |-> TRUE, out |-> 0 - r.val]
         ELSE LET r == strtol(f)
              IN  IF r.used = 0 \/ r.val < 1 \/ r.val > 999
                  THEN [ok |-> FALSE, out |-> 0]
                  ELSE [ok |-> TRUE, out |-> r.val]

\* printf("%d") of n >= 0.
RECURSIVE Decimal(_)
Decimal(n) ==
    IF n < 10 THEN <<DigitChar(n)>> ELSE Append(Decimal(n \div 10), DigitChar(n % 10))

\* The first n characters of s (a buffer of n + 1 bytes).
Trunc(s, n) == IF Len(s) > n THEN SubSeq(s, 1, n) ELSE s

\* index_handler with a buffer of three bytes: snprintf(out, 3, ...).
index_handler_short(index) ==
    IF index < 0 THEN Trunc(<<"B">> \o Decimal(0 - index), 2)
    ELSE Trunc(Decimal(index), 2)

\* snprintf(out, 4, ...): at most three characters are kept.
index_handler(index) ==
    IF index < 0 THEN Trunc(<<"B">> \o Decimal(0 - index), 3)
    ELSE Trunc(Decimal(index), 3)

\* sscanf with n conversions "%3s": each takes at most three characters of the
\* input; what is left of a longer token is read by the next conversion; a
\* conversion that finds no input leaves its zeroed buffer.
RECURSIVE Scan3(_, _)
Scan3(toks, n) ==
    IF n = 0 THEN <<>>
    ELSE IF toks = <<>> THEN <<<<>>>> \o Scan3(<<>>, n - 1)
    ELSE LET t == Head(toks)
         IN  IF Len(t) > 3
             THEN <<SubSeq(t, 1, 3)>> \o Scan3(<<SubSeq(t, 4, Len(t))>> \o Tail(toks), n - 1)
             ELSE <<t>> \o Scan3(Tail(toks), n - 1)

(***************************************************************************)
(* Queue operations of controller.c on a queue q[0 .. queue_len-1], held   *)
(* as a sequence.                                                          *)
(***************************************************************************)
\* in_queue with a scan that starts at q[1] instead of q[0].
in_queue_skips_head(q, fnum) == \E i \in 2..Len(q) : q[i] = fnum

in_queue(q, fnum) == \E i \in 1..Len(q) : q[i] = fnum

queue_floor(q, fnum) == IF Len(q) < MAX_QUEUE THEN Append(q, fnum) ELSE q

dequeue_floor(q) == IF Len(q) <= 0 THEN q ELSE Tail(q)

\* The C index (from 0) of the first occurrence of fnum, -1 when absent.
FirstIndex(q, fnum) ==
    IF in_queue(q, fnum)
    THEN (CHOOSE i \in 1..Len(q) : q[i] = fnum /\ \A j \in 1..(i - 1) : q[j] # fnum) - 1
    ELSE 0 - 1

\* q without the entry at C index k.
RemoveAt(q, k) == SubSeq(q, 1, k) \o SubSeq(q, k + 2, Len(q))

\* enqueue without the correction that moves a dst found ahead of src.
enqueue_keeps_dst(q, src_floor, dst_floor) ==
    IF src_floor = dst_floor THEN q
    ELSE LET q1 == IF \E i \in 1..Len(q) : q[i] = src_floor THEN q
                   ELSE IF Len(q) < MAX_QUEUE THEN Append(q, src_floor) ELSE q
         IN  IF \E i \in 1..Len(q1) : q1[i] = dst_floor THEN q1
             ELSE IF Len(q1) < MAX_QUEUE THEN Append(q1, dst_floor) ELSE q1

enqueue(q, src_floor, dst_floor) ==
    IF src_floor = dst_floor THEN q
    ELSE LET q1 == IF ~in_queue(q, src_floor) THEN queue_floor(q, src_floor) ELSE q
             src_index == FirstIndex(q1, src_floor)
             dst_index == FirstIndex(q1, dst_floor)
             before == dst_index >= 0 /\ dst_index < src_index
             q2 == IF before THEN RemoveAt(q1, dst_index) ELSE q1
             dst_index2 == IF before THEN 0 - 1 ELSE dst_index
         IN  IF dst_index2 < 0 THEN queue_floor(q2, dst_floor) ELSE q2

(***************************************************************************)
(* State.                                                                  *)
(*   g_cars    the controller's registry, one CarID per slot               *)
(*   conn      the controller's thread for each accepted connection: its   *)
(*             position and the locals it keeps between critical sections  *)
(*   sent      the frames written by the latest controller step, in order  *)
(*   accepted  the (src, dst) pairs enqueued so far by the queue harness   *)
(*   shm       the shared block /car<name> of the one car process          *)
(*   g_car     the car process: its arguments, its globals and the         *)
(*             positions and locals of its threads                         *)
(*   to_car    the frames in flight from the controller to the car         *)
(*   to_ctrl   the frames in flight from the car to the controller         *)
(*   inputs    the number of inputs the car's surroundings have given it   *)
(***************************************************************************)
VARIABLES g_cars, conn, sent, accepted, shm, g_car, to_car, to_ctrl, inputs

vars == <<g_cars, conn, sent, accepted, shm, g_car, to_car, to_ctrl, inputs>>

\* What the controller's steps leave alone in the car process.
carvars == <<g_car, to_car, to_ctrl, inputs>>

\* A zero-initialised CarID (static storage).
ZeroCar ==
    [in_use |-> 0, socket_fd |-> 0, name |-> "", lowest_floor |-> 0,
     highest_floor |-> 0, q |-> <<>>, status |-> "", cur_floor |-> <<>>,
     dst_floor |-> <<>>, shm_ptr |-> FALSE]

\* A connection thread: its position and its locals (name, index of tcp_thread;
\* status, curr_floor of tcp_car_thread; src_floor_int, dst_floor_int of
\* tcp_call_thread).
IdleConn ==
    [pc |-> "free", name |-> "", index |-> 0, status |-> "", curr_floor |-> <<>>,
     src |-> 0, dst |-> 0]

FloorFrame(fd, label) == [fd |-> fd, type |-> "FLOOR", name |-> "", label |-> label]

CarFrame(fd, name) == [fd |-> fd, type |-> "CAR", name |-> name, label |-> <<>>]

UnavailableFrame(fd) == [fd |-> fd, type |-> "UNAVAILABLE", name |-> "", label |-> <<>>]

\* The lowest slot satisfying P, -1 when there is none (a scan from slot 0).
FirstSlot(P(_)) ==
    IF \E i \in Slots : P(i)
    THEN CHOOSE i \in Slots : P(i) /\ \A j \in Slots : j < i => ~P(j)
    ELSE 0 - 1

find_registry(cars, name) ==
    LET Match(i) == cars[i].in_use = 1 /\ cars[i].name = name
    IN  FirstSlot(Match)

can_service(car, src_floor, dst_floor) ==
    /\ car.in_use = 1
    /\ ~(src_floor < car.lowest_floor \/ src_floor > car.highest_floor)
    /\ ~(dst_floor < car.lowest_floor \/ dst_floor > car.highest_floor)

\* car_selector without the break: the last fitting slot wins.
car_selector_last(cars, src_floor, dst_floor) ==
    IF \E i \in Slots : can_service(cars[i], src_floor, dst_floor)
    THEN CHOOSE i \in Slots : /\ can_service(cars[i], src_floor, dst_floor)
                              /\ \A j \in Slots : j > i => ~can_service(cars[j], src_floor, dst_floor)
    ELSE 0 - 1

\* car_selector: the slot whose name is copied out, -1 when none is found.
car_selector(cars, src_floor, dst_floor) ==
    LET Fit(i) == cars[i].in_use = 1 /\ can_service(cars[i], src_floor, dst_floor)
    IN  FirstSlot(Fit)

\* send_car: the frames written for this car.
send_car(car) ==
    IF car.q = <<>> THEN <<>>
    ELSE <<FloorFrame(car.socket_fd, index_handler(car.q[1]))>>

\* car_scheduler_handler: the car's queue afterwards.
scheduler_queue(car) ==
    IF Len(car.q) > 0
       /\ car.status = "Opening"
       /\ car.cur_floor = index_handler(car.q[1])
    THEN dequeue_floor(car.q)
    ELSE car.q

\* car_connection_manager without the scan for a slot already registered
\* under the name.
registry_index_first_free(cars, name) ==
    LET Free(i) == cars[i].in_use # 1
    IN  FirstSlot(Free)

\* The slot car_connection_manager writes: the slot already registered under
\* the name, else the first free slot, else -1.
registry_index(cars, name) ==
    LET Same(i) == cars[i].in_use = 1 /\ cars[i].name = name
        Free(i) == cars[i].in_use # 1
    IN  IF find_registry(cars, name) >= 0 THEN FirstSlot(Same) ELSE FirstSlot(Free)

\* remove_car: the registry afterwards.
\* remove_car that frees the slot but keeps its queue.
remove_car_keeps_queue(cars, socket_fd) ==
    LET Mine(i) == cars[i].in_use = 1 /\ cars[i].socket_fd = socket_fd
        i == FirstSlot(Mine)
    IN  IF i < 0 THEN cars
        ELSE [cars EXCEPT ![i] = [@ EXCEPT !.shm_ptr = FALSE, !.in_use = 0,
                                            !.socket_fd = 0 - 1, !.name = ""]]

remove_car(cars, socket_fd) ==
    LET Mine(i) == cars[i].in_use = 1 /\ cars[i].socket_fd = socket_fd
        i == FirstSlot(Mine)
    IN  IF i < 0 THEN cars
        ELSE [cars EXCEPT ![i] = [@ EXCEPT !.shm_ptr = FALSE, !.in_use = 0,
                                            !.socket_fd = 0 - 1, !.name = "",
                                            !.q = <<>>]]

(***************************************************************************)
(* The shared block car_shared_mem.  Its field cond is the condition        *)
(* variable as the safety monitor sees it: "idle" while the monitor is not *)
(* blocked in pthread_cond_wait, "waiting" while it is, "signalled" once a *)
(* broadcast has reached it.  The car's own waits are timed and re-test    *)
(* their condition, so they need no such record.                           *)
(***************************************************************************)
\* The block as car.c's main initialises it.
NewBlock(lowest) ==
    [current_floor |-> lowest, destination_floor |-> lowest, status |-> "Closed",
     open_button |-> 0, close_button |-> 0, safety_system |-> 0,
     door_obstruction |-> 0, overload |-> 0, emergency_stop |-> 0,
     individual_service_mode |-> 0, emergency_mode |-> 0, cond |-> "idle"]

\* pthread_cond_broadcast(&shm->cond).
CAR_NOTIFY(b) == [b EXCEPT !.cond = IF @ = "waiting" THEN "signalled" ELSE @]

\* shm_attach_car once the block is mapped.
shm_attach_car(b, entry) ==
    CAR_NOTIFY([b EXCEPT !.status = "Closed",
                         !.current_floor = Trunc(entry.cur_floor, 3),
                         !.destination_floor = Trunc(entry.dst_floor, 3)])

\* fetch_shm_status: the controller copies a STATUS frame into the block.
fetch_shm_status(b, status, cur, dst) ==
    CAR_NOTIFY([b EXCEPT !.status = status,
                         !.current_floor = Trunc(cur, 3),
                         !.destination_floor = Trunc(dst, 3)])

(***************************************************************************)
(* The car process (car.c).  The main thread runs a program: a stack of    *)
(* steps, each one critical section on the block's mutex.  A step that     *)
(* tests a shared field carries the steps to run on either outcome.  The   *)
(* locals need no place in the state: the test of output (if_out) is       *)
(* resolved by the step that reads it, and the step that reads the buttons *)
(* into open and close carries what "if (open)" and "if (close)" run.      *)
(***************************************************************************)
status_handler(status_update) == << <<"write", status_update>>, <<"sleep_read">> >>

open_status_handler(status_update) ==
    << <<"write", status_update>>, <<"open_window">>, <<"sleep_closed">> >>

\* to_close with a misspelt status.
to_close_misspelt == << <<"write", "Close">> >>

to_close == << <<"write", "Closed">> >>

to_open ==
    status_handler("Opening") \o << <<"if_out", "Opening", open_status_handler("Open")>> >>

exists_pending == << <<"exists_pending">> >>

move_one_floor == status_handler("Between") \o << <<"move">> >>

service_between ==
    << <<"is_service_mode",
         << <<"fetch_status", "Closed", << <<"service_read">> >>, <<>> >> >>,
         <<>> >> >>

\* main, "if (open)" of the service and emergency branches.
open_door ==
    LET opening == status_handler("Opening")
                     \o << <<"if_out", "Opening", << <<"write", "Open">> >> >> >>
    IN  << <<"fetch_status", "Closed", opening,
             << <<"fetch_status", "Closing", opening, <<>> >> >> >> >>

\* main, "if (close)" of the service and normal branches.
close_door ==
    << <<"fetch_status", "Open", status_handler("Closing") \o to_close, <<>> >> >>

\* main, "if (close)" of the emergency branch.
close_door_emergency ==
    << <<"fetch_status", "Open",
         status_handler("Closing")
           \o << <<"if_out", "Closing", << <<"write", "Closed">> >> >> >>,
         << <<"fetch_status", "Closing", << <<"write", "Closed">> >>, <<>> >> >> >> >>

service_body == service_between \o << <<"buttons", open_door, close_door>> >>

emergency_body == << <<"buttons", open_door, close_door_emergency>> >>

normal_body ==
    << <<"at_destination",
         to_open \o exists_pending,
         << <<"fetch_status", "Closed",
              move_one_floor \o << <<"at_destination", to_open, <<>> >> >> \o exists_pending,
              << <<"fetch_status", "Closing",
                   status_handler("Closing") \o to_close,
                   << <<"fetch_status", "Opening", to_open, <<>> >> >> >> >> >> >> >>,
       <<"buttons",
         << <<"fetch_status", "Closed", to_open,
              << <<"fetch_status", "Closing", to_open, <<>> >> >> >> >>,
         close_door>> >>

\* One turn of main's loop; the timed pause that ends a turn changes nothing
\* and is part of the wait that begins the next.
main_loop ==
    << <<"wait">>,
       <<"is_service_mode", service_body,
         << <<"is_emergency_mode", emergency_body, normal_body>> >> >> >>

\* The stack with a test of output at its top resolved; an empty stack is
\* the next turn of the loop.
Resolve(stack, out) ==
    IF stack = <<>> THEN main_loop
    ELSE IF Head(stack)[1] = "if_out"
    THEN LET rest == (IF out = Head(stack)[2] THEN Head(stack)[3] ELSE <<>>) \o Tail(stack)
         IN  IF rest = <<>> THEN main_loop ELSE rest
    ELSE stack

\* A car process that has not been started.
NoCar ==
    [running |-> FALSE, name |-> "A", lowest |-> <<"1">>, highest |-> <<"3">>,
     pc |-> <<>>,
     pending_floor |-> <<>>, has_pending |-> 0, g_tx_flag |-> 0,
     link |-> "down", rx |-> "off", floor |-> <<>>, between |-> FALSE, tx |-> "off"]

\* The car process once main has created the block and started tcp_thread.
StartedCar(highest) == [NoCar EXCEPT !.running = TRUE, !.highest = highest, !.pc = main_loop]

(***************************************************************************)
(* Inputs of the controller model: the frames its peers send.               *)
(***************************************************************************)
\* <name> <low> <high> of a CAR frame.
CarInputs ==
    { <<"A", <<<<"B", "1">>, <<"1">>>>>>, <<"A", <<<<"2">>, <<"1">>>>>>,
      <<"B", <<<<"1">>, <<"2">>>>>>, <<"B", <<<<"x">>, <<"1">>>>>> }

\* <src> <dst> of a CALL frame.
CallLabels == { <<"B", "1">>, <<"1">>, <<"2">> }

CallInputs ==
    { <<a, b>> : a \in CallLabels, b \in CallLabels }
      \cup { <<<<"1", "x">>, <<"2">>>>, <<<<"0">>, <<"1">>>>, <<<<"1">>>>,
             <<<<"1", "2", "3", "4">>, <<"1">>>> }

\* <status> <cur> <dst> of a STATUS frame.
StatusInputs ==
    { <<"Opening", <<<<"1">>, <<"1">>>>>>, <<"Closed", <<<<"1">>, <<"2">>>>>> }

(***************************************************************************)
(* Controller: tcp_thread, car_connection_manager, tcp_car_thread,          *)
(* tcp_call_thread.                                                         *)
(***************************************************************************)
\* main's accept loop: a connection is accepted and its thread started.
Accept(c) ==
    /\ conn[c].pc = "free"
    /\ conn' = [conn EXCEPT ![c] = [IdleConn EXCEPT !.pc = "first"]]
    /\ sent' = <<>>
    /\ UNCHANGED <<g_cars, accepted, shm>>

\* tcp_thread: the first frame cannot be read, or is neither CAR nor CALL.
CloseFirst(c) ==
    /\ conn[c].pc = "first"
    /\ conn' = [conn EXCEPT ![c] = IdleConn]
    /\ sent' = <<>>
    /\ UNCHANGED <<g_cars, accepted, shm>>

\* The entry car_connection_manager writes for a CAR frame whose two floor
\* labels parse: the range is swapped when misordered, the floors are the label
\* given first.
new_car(socket_fd, name, lowest, highest) ==
    LET lo == floor_num_handler(lowest).out
        hi == floor_num_handler(highest).out
    IN  [in_use |-> 1, socket_fd |-> socket_fd, name |-> name,
         lowest_floor |-> IF lo > hi THEN hi ELSE lo,
         highest_floor |-> IF lo > hi THEN lo ELSE hi,
         q |-> <<>>, status |-> "Closed", cur_floor |-> Trunc(lowest, 3),
         dst_floor |-> Trunc(lowest, 3), shm_ptr |-> FALSE]

\* tcp_thread on "CAR <name> <low> <high>": car_connection_manager up to the
\* release of the registry lock.
Register(c, name, range) ==
    /\ conn[c].pc = "first"
    /\ LET f == Scan3(range, 2)
           lowest == f[1]
           highest == f[2]
           index == registry_index(g_cars, name)
       IN  IF ~floor_num_handler(lowest).ok \/ ~floor_num_handler(highest).ok \/ index < 0
           THEN /\ conn' = [conn EXCEPT ![c] = IdleConn]
                /\ UNCHANGED <<g_cars, accepted>>
           ELSE /\ g_cars' = [g_cars EXCEPT ![index] = new_car(c, name, lowest, highest)]
                /\ conn' = [conn EXCEPT ![c] = [IdleConn EXCEPT !.pc = "attach",
                                                  !.name = name, !.index = index]]
                /\ UNCHANGED accepted
    /\ sent' = <<>>
    /\ UNCHANGED shm

\* shm_open("/car<name>") succeeds when the car process of that name has
\* created its block.
BlockExists(name) == g_car.running /\ g_car.name = name

\* car_connection_manager after the lock is released: shm_attach_car when
\* shm_open fails.
Attach(c) ==
    /\ conn[c].pc = "attach"
    /\ ~BlockExists(g_cars[conn[c].index].name)
    /\ g_cars' = [g_cars EXCEPT ![conn[c].index].shm_ptr = FALSE]
    /\ conn' = [conn EXCEPT ![c].pc = "car", ![c].index = 0]
    /\ sent' = <<>>
    /\ UNCHANGED <<accepted, shm>>

\* car_connection_manager after the lock is released: shm_attach_car when the
\* block is opened and mapped.
AttachBlock(c) ==
    /\ conn[c].pc = "attach"
    /\ BlockExists(g_cars[conn[c].index].name)
    /\ g_cars' = [g_cars EXCEPT ![conn[c].index].shm_ptr = TRUE]
    /\ shm' = shm_attach_car(shm, g_cars[conn[c].index])
    /\ conn' = [conn EXCEPT ![c].pc = "car", ![c].index = 0]
    /\ sent' = <<>>
    /\ UNCHANGED accepted

\* update_status: the registry after a STATUS frame on socket_fd.
update_status(cars, socket_fd, status, cur, dst) ==
    LET Mine(i) == cars[i].in_use = 1 /\ cars[i].socket_fd = socket_fd
        i == FirstSlot(Mine)
    IN  IF i < 0 THEN cars
        ELSE [cars EXCEPT ![i] = [@ EXCEPT !.status = status,
                                            !.cur_floor = Trunc(cur, 3),
                                            !.dst_floor = Trunc(dst, 3)]]

\* The entry a STATUS frame on socket_fd updates has the block mapped.
mirrors(cars, socket_fd) ==
    \E i \in Slots : cars[i].in_use = 1 /\ cars[i].socket_fd = socket_fd /\ cars[i].shm_ptr

\* tcp_car_thread on "STATUS <status> <cur> <dst>": update_status.
StatusUpdate(c, status, toks) ==
    /\ conn[c].pc = "car"
    /\ LET f == Scan3(toks, 2)
       IN  /\ g_cars' = update_status(g_cars, c, status, f[1], f[2])
           /\ shm' = IF mirrors(g_cars, c) THEN fetch_shm_status(shm, status, f[1], f[2])
                      ELSE shm
           /\ conn' = [conn EXCEPT ![c].pc = "sched", ![c].status = status,
                                   ![c].curr_floor = f[1]]
    /\ sent' = <<>>
    /\ UNCHANGED accepted

\* tcp_car_thread after update_status: find_registry(name) and
\* car_scheduler_handler under the registry lock.
Schedule(c) ==
    /\ conn[c].pc = "sched"
    /\ LET i == find_registry(g_cars, conn[c].name)
       IN  IF i < 0
           THEN /\ sent' = <<>>
                /\ UNCHANGED <<g_cars, accepted>>
           ELSE LET q2 == scheduler_queue(g_cars[i])
                IN  /\ g_cars' = [g_cars EXCEPT ![i].q = q2]
                    /\ sent' = send_car([g_cars[i] EXCEPT !.q = q2])
                    /\ UNCHANGED accepted
    /\ UNCHANGED shm
    /\ conn' = [conn EXCEPT ![c].pc = "car", ![c].status = "", ![c].curr_floor = <<>>]

\* tcp_car_thread: receive_frame fails or the frame is unknown: remove_car and
\* close.
CarClose(c) ==
    /\ conn[c].pc = "car"
    /\ g_cars' = remove_car(g_cars, c)
    /\ UNCHANGED <<accepted, shm>>
    /\ conn' = [conn EXCEPT ![c] = IdleConn]
    /\ sent' = <<>>

\* tcp_call_thread up to the reply: parse, car_selector, send CAR or
\* UNAVAILABLE.
CallSelect(c, toks) ==
    /\ conn[c].pc = "first"
    /\ LET f == Scan3(toks, 2)
           src == floor_num_handler(f[1])
           dst == floor_num_handler(f[2])
           i == car_selector(g_cars, src.out, dst.out)
       IN  IF ~src.ok \/ ~dst.ok \/ src.out = dst.out \/ i < 0
           THEN /\ sent' = <<UnavailableFrame(c)>>
                /\ conn' = [conn EXCEPT ![c] = IdleConn]
           ELSE /\ sent' = <<CarFrame(c, g_cars[i].name)>>
                /\ conn' = [conn EXCEPT ![c] = [IdleConn EXCEPT !.pc = "enqueue",
                                 !.name = g_cars[i].name, !.src = src.out, !.dst = dst.out]]
    /\ UNCHANGED <<g_cars, accepted, shm>>

\* tcp_call_thread after the reply: find_registry, enqueue and send_car under
\* the registry lock, then close.
CallEnqueue(c) ==
    /\ conn[c].pc = "enqueue"
    /\ LET i == find_registry(g_cars, conn[c].name)
       IN  IF i < 0
           THEN /\ sent' = <<>>
                /\ UNCHANGED <<g_cars, accepted>>
           ELSE LET q2 == enqueue(g_cars[i].q, conn[c].src, conn[c].dst)
                IN  /\ g_cars' = [g_cars EXCEPT ![i].q = q2]
                    /\ sent' = send_car([g_cars[i] EXCEPT !.q = q2])
                    /\ UNCHANGED accepted
    /\ conn' = [conn EXCEPT ![c] = IdleConn]
    /\ UNCHANGED shm

\* The controller alone: its peers are the frames of CarInputs, StatusInputs
\* and CallInputs; no car process runs on its host.
Init ==
    /\ g_cars = [i \in Slots |-> ZeroCar]
    /\ conn = [c \in ConnIds |-> IdleConn]
    /\ sent = <<>>
    /\ accepted = {}
    /\ g_car = NoCar
    /\ shm = NewBlock(NoCar.lowest)
    /\ to_car = <<>>
    /\ to_ctrl = <<>>
    /\ inputs = 0

Next ==
    \/ \E c \in ConnIds : Accept(c) /\ UNCHANGED carvars
    \/ \E c \in ConnIds : CloseFirst(c) /\ UNCHANGED carvars
    \/ \E c \in CarConns, in \in CarInputs : Register(c, in[1], in[2]) /\ UNCHANGED carvars
    \/ \E c \in CarConns : Attach(c) /\ UNCHANGED carvars
    \/ \E c \in CarConns, in \in StatusInputs :
           StatusUpdate(c, in[1], in[2]) /\ UNCHANGED carvars
    \/ \E c \in CarConns : Schedule(c) /\ UNCHANGED carvars
    \/ \E c \in CarConns : CarClose(c) /\ UNCHANGED carvars
    \/ \E c \in CallConns, toks \in CallInputs : CallSelect(c, toks) /\ UNCHANGED carvars
    \/ \E c \in CallConns : CallEnqueue(c) /\ UNCHANGED carvars

Spec == Init /\ [][Next]_vars

(***************************************************************************)
(* Queue harness: one registered car whose queue takes any sequence of     *)
(* accepted calls (enqueue) and scheduler dequeues (dequeue_floor).         *)
(***************************************************************************)
QueueCar == new_car(1, "A", <<"B", "1">>, <<"3">>)

QFloors == { f \in QueueCar.lowest_floor .. QueueCar.highest_floor : f # 0 }

BothIn(q, p) == in_queue(q, p[1]) /\ in_queue(q, p[2])

Ordered(q, p) == FirstIndex(q, p[1]) < FirstIndex(q, p[2])

\* The accepted pairs whose two floors are both still in q.
StillQueued(pairs, q) == { p \in pairs : BothIn(q, p) }

QInit ==
    /\ g_cars = [i \in Slots |-> IF i = 0 THEN QueueCar ELSE ZeroCar]
    /\ conn = [c \in ConnIds |-> IF c = 1 THEN [IdleConn EXCEPT !.pc = "car", !.name = "A"]
                                          ELSE IdleConn]
    /\ sent = <<>>
    /\ accepted = {}
    /\ g_car = NoCar
    /\ shm = NewBlock(NoCar.lowest)
    /\ to_car = <<>>
    /\ to_ctrl = <<>>
    /\ inputs = 0

\* tcp_call_thread's enqueue and send_car for a call the car can service.
QCall(src, dst) ==
    /\ src # dst
    /\ can_service(g_cars[0], src, dst)
    /\ LET q2 == enqueue(g_cars[0].q, src, dst)
       IN  /\ g_cars' = [g_cars EXCEPT ![0].q = q2]
           /\ sent' = send_car([g_cars[0] EXCEPT !.q = q2])
           /\ accepted' = StillQueued(accepted \cup {<<src, dst>>}, q2)
    /\ UNCHANGED <<conn, shm, carvars>>

\* car_scheduler_handler's dequeue_floor when the car opens at the head.
QDequeue ==
    /\ g_cars[0].q # <<>>
    /\ LET q2 == dequeue_floor(g_cars[0].q)
       IN  /\ g_cars' = [g_cars EXCEPT ![0].q = q2]
           /\ sent' = send_car([g_cars[0] EXCEPT !.q = q2])
           /\ accepted' = StillQueued(accepted, q2)
    /\ UNCHANGED <<conn, shm, carvars>>

QNext ==
    \/ \E src \in QFloors, dst \in QFloors : QCall(src, dst)
    \/ QDequeue

QueueSpec == QInit /\ [][QNext]_vars

(***************************************************************************)
(* The car's main thread.  Every action is the critical section at the top *)
(* of the program stack; flag_status, which follows the unlock, is part of *)
(* the action.                                                             *)
(***************************************************************************)
Top == Head(g_car.pc)

\* The stack after the top step, with prog to run first.
Proceed(prog) == Resolve(prog \o Tail(g_car.pc), "")

\* The stack after a step that has read the status into output.
ProceedWith(out) == Resolve(Tail(g_car.pc), out)

MainAt(step) == g_car.running /\ Top[1] = step

floor_validator(f) ==
    LET lo == floor_num_handler(g_car.lowest).out
        hi == floor_num_handler(g_car.highest).out
    IN  IF f < lo THEN lo ELSE IF f > hi THEN hi ELSE f

next_floor(current_floor, destination_floor) ==
    IF current_floor < destination_floor
    THEN (IF current_floor + 1 = 0 THEN 1 ELSE current_floor + 1)
    ELSE IF current_floor > destination_floor
    THEN (IF current_floor - 1 = 0 THEN 0 - 1 ELSE current_floor - 1)
    ELSE current_floor

\* main's wait at the top of the loop: it ends when a button is pressed, a
\* mode is set or the car is not at its destination.
Wait ==
    /\ MainAt("wait")
    /\ ~( /\ shm.open_button = 0 /\ shm.close_button = 0
          /\ shm.individual_service_mode = 0 /\ shm.emergency_mode = 0
          /\ shm.current_floor = shm.destination_floor )
    /\ g_car' = [g_car EXCEPT !.pc = Proceed(<<>>)]
    /\ UNCHANGED <<shm, to_car, to_ctrl>>

IsServiceMode ==
    /\ MainAt("is_service_mode")
    /\ g_car' = [g_car EXCEPT !.pc = Proceed(IF shm.individual_service_mode # 0
                                              THEN Top[2] ELSE Top[3])]
    /\ UNCHANGED <<shm, to_car, to_ctrl>>

IsEmergencyMode ==
    /\ MainAt("is_emergency_mode")
    /\ g_car' = [g_car EXCEPT !.pc = Proceed(IF shm.emergency_mode # 0
                                              THEN Top[2] ELSE Top[3])]
    /\ UNCHANGED <<shm, to_car, to_ctrl>>

AtDestination ==
    /\ MainAt("at_destination")
    /\ g_car' = [g_car EXCEPT !.pc = Proceed(IF shm.current_floor = shm.destination_floor
                                              THEN Top[2] ELSE Top[3])]
    /\ UNCHANGED <<shm, to_car, to_ctrl>>

FetchStatus ==
    /\ MainAt("fetch_status")
    /\ g_car' = [g_car EXCEPT !.pc = Proceed(IF shm.status = Top[2] THEN Top[3] ELSE Top[4])]
    /\ UNCHANGED <<shm, to_car, to_ctrl>>

\* status_handler, open_status_handler, to_close and main: the status is
\* written, the condition broadcast and the transmit flag raised.
StatusWrite ==
    /\ MainAt("write")
    /\ shm' = CAR_NOTIFY([shm EXCEPT !.status = Top[2]])
    /\ g_car' = [g_car EXCEPT !.pc = Proceed(<<>>), !.g_tx_flag = 1]
    /\ UNCHANGED <<to_car, to_ctrl>>

\* status_handler after sleep_ms: the status is read back into output.
SleepRead ==
    /\ MainAt("sleep_read")
    /\ g_car' = [g_car EXCEPT !.pc = ProceedWith(shm.status), !.g_tx_flag = 1]
    /\ UNCHANGED <<shm, to_car, to_ctrl>>

\* The open window without its extension: a pressed open button is left alone
\* and the doors start closing.
OpenWindow_no_extension ==
    /\ MainAt("open_window")
    /\ shm' = CAR_NOTIFY([shm EXCEPT !.close_button = IF @ = 1 THEN 0 ELSE @,
                                     !.status = "Closing"])
    /\ g_car' = [g_car EXCEPT !.pc = Proceed(<<>>), !.g_tx_flag = 1]
    /\ UNCHANGED <<to_car, to_ctrl>>

\* The open window with the open button tested before the close button.
OpenWindow_open_first ==
    /\ MainAt("open_window")
    /\ IF shm.open_button = 1
       THEN /\ shm' = [shm EXCEPT !.open_button = 0]
            /\ UNCHANGED g_car
       ELSE /\ shm' = CAR_NOTIFY([shm EXCEPT !.close_button = IF @ = 1 THEN 0 ELSE @,
                                             !.status = "Closing"])
            /\ g_car' = [g_car EXCEPT !.pc = Proceed(<<>>), !.g_tx_flag = 1]
    /\ UNCHANGED <<to_car, to_ctrl>>

\* open_status_handler's open window, from one wake-up to the next wait: a
\* pressed open button is cleared and restarts the window; a close button or
\* the timeout ends it and the doors start closing.
OpenWindow ==
    /\ MainAt("open_window")
    /\ IF shm.close_button = 0 /\ shm.open_button = 1
       THEN /\ shm' = [shm EXCEPT !.open_button = 0]
            /\ UNCHANGED g_car
       ELSE /\ shm' = CAR_NOTIFY([shm EXCEPT !.close_button = IF @ = 1 THEN 0 ELSE @,
                                             !.status = "Closing"])
            /\ g_car' = [g_car EXCEPT !.pc = Proceed(<<>>), !.g_tx_flag = 1]
    /\ UNCHANGED <<to_car, to_ctrl>>

\* open_status_handler after sleep_ms: Closing becomes Closed.
SleepClosed ==
    /\ MainAt("sleep_closed")
    /\ LET status == IF shm.status = "Closing" THEN "Closed" ELSE shm.status
       IN  /\ shm' = IF shm.status = "Closing" THEN CAR_NOTIFY([shm EXCEPT !.status = "Closed"])
                     ELSE shm
           /\ g_car' = [g_car EXCEPT !.pc = ProceedWith(status), !.g_tx_flag = 1]
    /\ UNCHANGED <<to_car, to_ctrl>>

ExistsPending ==
    /\ MainAt("exists_pending")
    /\ IF g_car.has_pending # 0
       THEN /\ shm' = CAR_NOTIFY([shm EXCEPT !.destination_floor = Trunc(g_car.pending_floor, 3)])
            /\ g_car' = [g_car EXCEPT !.pc = Proceed(<<>>), !.has_pending = 0,
                                      !.pending_floor = <<>>, !.g_tx_flag = 1]
       ELSE /\ g_car' = [g_car EXCEPT !.pc = Proceed(<<>>), !.g_tx_flag = 1]
            /\ UNCHANGED shm
    /\ UNCHANGED <<to_car, to_ctrl>>

\* move_one_floor after status_handler("Between"): one floor towards the
\* destination, within the car's range.
Move ==
    /\ MainAt("move")
    /\ IF shm.status = "Between"
       THEN LET current == floor_num_handler(shm.current_floor).out
                destination == floor_num_handler(shm.destination_floor).out
                next == floor_validator(next_floor(current, destination))
            IN  shm' = CAR_NOTIFY([shm EXCEPT !.current_floor = index_handler(next),
                                              !.status = "Closed"])
       ELSE UNCHANGED shm
    /\ g_car' = [g_car EXCEPT !.pc = Proceed(<<>>), !.g_tx_flag = 1]
    /\ UNCHANGED <<to_car, to_ctrl>>

\* service_between: the floors are read; a destination that is not one floor
\* away is reset, otherwise the car moves.
ServiceRead ==
    /\ MainAt("service_read")
    /\ LET current == floor_num_handler(shm.current_floor).out
           destination == floor_num_handler(shm.destination_floor).out
       IN  g_car' = [g_car EXCEPT !.pc =
               Proceed(IF destination = current + 1 \/ destination = current - 1
                       THEN move_one_floor ELSE << <<"service_reset">> >>)]
    /\ UNCHANGED <<shm, to_car, to_ctrl>>

ServiceReset ==
    /\ MainAt("service_reset")
    /\ shm' = CAR_NOTIFY([shm EXCEPT !.destination_floor = Trunc(shm.current_floor, 3)])
    /\ g_car' = [g_car EXCEPT !.pc = Proceed(<<>>)]
    /\ UNCHANGED <<to_car, to_ctrl>>

\* main: the buttons are read into open and close and cleared.
Buttons ==
    /\ MainAt("buttons")
    /\ shm' = [shm EXCEPT !.open_button = 0, !.close_button = 0]
    /\ g_car' = [g_car EXCEPT !.pc = Proceed((IF shm.open_button # 0 THEN Top[2] ELSE <<>>)
                                               \o (IF shm.close_button # 0 THEN Top[3] ELSE <<>>))]
    /\ UNCHANGED <<to_car, to_ctrl>>

(***************************************************************************)
(* The car's link threads: tcp_thread, tcp_receive_thread and              *)
(* tcp_transmit_thread.  A send blocks while MaxInFlight frames are in     *)
(* flight.                                                                 *)
(***************************************************************************)
MaxInFlight == 1

\* The FLOOR frames and panel operations given to the car in one run.
MaxInputs == 2

HelloFrame(name, lowest, highest) ==
    [type |-> "CAR", name |-> name, status |-> "", toks |-> <<lowest, highest>>]

StatusFrame(status, cur, dst) ==
    [type |-> "STATUS", name |-> "", status |-> status, toks |-> <<cur, dst>>]

ModeFrame(type) == [type |-> type, name |-> "", status |-> "", toks |-> <<>>]

\* post_status with the destination read in place of the current floor.
post_status_swapped(b) ==
    StatusFrame(b.status, Trunc(b.destination_floor, 3), Trunc(b.destination_floor, 3))

\* post_status: the frame built from the block.
post_status(b) ==
    StatusFrame(b.status, Trunc(b.current_floor, 3), Trunc(b.destination_floor, 3))

\* tcp_thread: not in service or emergency mode, it connects and sends CAR.
Connect ==
    /\ g_car.running /\ g_car.link = "down"
    /\ shm.individual_service_mode = 0 /\ shm.emergency_mode = 0
    /\ Len(to_ctrl) < MaxInFlight
    /\ to_ctrl' = Append(to_ctrl, HelloFrame(g_car.name, g_car.lowest, g_car.highest))
    /\ g_car' = [g_car EXCEPT !.link = "hello"]
    /\ UNCHANGED <<shm, to_car>>

\* tcp_thread: post_status, then the receive and transmit threads start.
FirstStatus ==
    /\ g_car.running /\ g_car.link = "hello"
    /\ Len(to_ctrl) < MaxInFlight
    /\ to_ctrl' = Append(to_ctrl, post_status(shm))
    /\ g_car' = [g_car EXCEPT !.link = "up", !.rx = "recv", !.tx = "wait"]
    /\ UNCHANGED <<shm, to_car>>

\* tcp_receive_thread on "FLOOR <label>": the label is scanned and the status
\* compared with Between in a first critical section.
RxFloor ==
    /\ g_car.rx = "recv"
    /\ to_car # <<>>
    /\ to_car' = Tail(to_car)
    /\ g_car' = [g_car EXCEPT !.rx = "store",
                              !.floor = Scan3(<<Head(to_car).label>>, 1)[1],
                              !.between = (shm.status = "Between")]
    /\ UNCHANGED <<shm, to_ctrl>>

\* tcp_receive_thread's second critical section: the label goes to the pending
\* slot if the car was between floors, else to destination_floor.
RxStore ==
    /\ g_car.rx = "store"
    /\ IF g_car.between
       THEN /\ shm' = CAR_NOTIFY(shm)
            /\ g_car' = [g_car EXCEPT !.rx = "recv", !.pending_floor = Trunc(g_car.floor, 3),
                                      !.has_pending = 1, !.floor = <<>>, !.between = FALSE]
       ELSE /\ shm' = CAR_NOTIFY([shm EXCEPT !.destination_floor = Trunc(g_car.floor, 3)])
            /\ g_car' = [g_car EXCEPT !.rx = "recv", !.g_tx_flag = 1,
                                      !.floor = <<>>, !.between = FALSE]
    /\ UNCHANGED <<to_car, to_ctrl>>

\* tcp_transmit_thread: the raised flag is taken.
TxTake ==
    /\ g_car.tx = "wait"
    /\ g_car.g_tx_flag # 0
    /\ g_car' = [g_car EXCEPT !.tx = "post", !.g_tx_flag = 0]
    /\ UNCHANGED <<shm, to_car, to_ctrl>>

\* tcp_transmit_thread: post_status; the transmit timeout is set anew.  On a
\* connection that is cut the send fails and the thread ends.
TxPost ==
    /\ g_car.tx = "post"
    /\ IF g_car.link = "cut"
       THEN /\ g_car' = [g_car EXCEPT !.tx = "done"]
            /\ UNCHANGED to_ctrl
       ELSE /\ Len(to_ctrl) < MaxInFlight
            /\ to_ctrl' = Append(to_ctrl, post_status(shm))
            /\ g_car' = [g_car EXCEPT !.tx = "tick"]
    /\ UNCHANGED <<shm, to_car>>

\* tcp_transmit_thread: the clock is read and compared with the transmit
\* timeout.  late tells whether the timeout, set after the post, has passed by
\* the time the clock is read; if so safety_system (a uint8_t) is incremented
\* and the condition broadcast, and a count of 3 or more leads to the alarm.
TxTick(late) ==
    /\ g_car.tx = "tick"
    /\ IF late
       THEN LET val == shm.safety_system + 1
            IN  /\ shm' = CAR_NOTIFY([shm EXCEPT !.safety_system = val % 256])
                /\ g_car' = [g_car EXCEPT !.tx = IF val >= 3 THEN "alarm" ELSE "mode"]
       ELSE /\ g_car' = [g_car EXCEPT !.tx = "mode"]
            /\ UNCHANGED shm
    /\ UNCHANGED <<to_car, to_ctrl>>

\* tcp_transmit_thread after the third missed tick: emergency_mode is set,
\* EMERGENCY is sent, whether or not the send succeeds, and the thread ends.
TxAlarm ==
    /\ g_car.tx = "alarm"
    /\ g_car.link = "cut" \/ Len(to_ctrl) < MaxInFlight
    /\ shm' = CAR_NOTIFY([shm EXCEPT !.emergency_mode = 1])
    /\ to_ctrl' = IF g_car.link = "cut" THEN to_ctrl
                  ELSE Append(to_ctrl, ModeFrame("EMERGENCY"))
    /\ g_car' = [g_car EXCEPT !.tx = "done"]
    /\ UNCHANGED to_car

\* tcp_transmit_thread: in service or emergency mode the mode's frame is sent,
\* whether or not the send succeeds, and the thread ends.
TxMode ==
    /\ g_car.tx = "mode"
    /\ IF shm.individual_service_mode # 0 \/ shm.emergency_mode # 0
       THEN /\ g_car.link = "cut" \/ Len(to_ctrl) < MaxInFlight
            /\ to_ctrl' = IF g_car.link = "cut" THEN to_ctrl
                          ELSE Append(to_ctrl, ModeFrame(IF shm.individual_service_mode # 0
                                                         THEN "INDIVIDUAL SERVICE"
                                                         ELSE "EMERGENCY"))
            /\ g_car' = [g_car EXCEPT !.tx = "done"]
       ELSE /\ g_car' = [g_car EXCEPT !.tx = "wait"]
            /\ UNCHANGED to_ctrl
    /\ UNCHANGED <<shm, to_car>>

\* tcp_receive_thread: receive_frame fails on a connection that is cut and the
\* thread ends.
RxEnd ==
    /\ g_car.rx = "recv"
    /\ g_car.link = "cut"
    /\ g_car' = [g_car EXCEPT !.rx = "done"]
    /\ UNCHANGED <<shm, to_car, to_ctrl>>

\* tcp_thread: both link threads are joined, the socket is shut down and
\* closed, and the connection loop starts again.
LinkEnd ==
    /\ g_car.rx = "done" /\ g_car.tx = "done"
    /\ g_car' = [g_car EXCEPT !.link = "down", !.rx = "off", !.tx = "off"]
    /\ UNCHANGED <<shm, to_car, to_ctrl>>

(***************************************************************************)
(* The internal panel (internal.c): one operation on the block.            *)
(***************************************************************************)
Operations == {"open", "close", "stop", "service_on", "service_off", "up", "down"}

\* internal with up and down allowed in every mode and status.
internal_unchecked(b, operation) ==
    CASE operation = "open" -> CAR_NOTIFY([b EXCEPT !.open_button = 1])
      [] operation = "close" -> CAR_NOTIFY([b EXCEPT !.close_button = 1])
      [] operation = "stop" -> CAR_NOTIFY([b EXCEPT !.emergency_stop = 1])
      [] operation = "service_on" ->
            CAR_NOTIFY([b EXCEPT !.individual_service_mode = 1, !.emergency_mode = 0])
      [] operation = "service_off" -> CAR_NOTIFY([b EXCEPT !.individual_service_mode = 0])
      [] operation \in {"up", "down"} ->
            LET cur == floor_num_handler(b.current_floor)
                step == IF operation = "up" THEN 1 ELSE 0 - 1
                next == IF cur.out + step = 0 THEN step ELSE cur.out + step
            IN  IF cur.ok
                THEN CAR_NOTIFY([b EXCEPT !.destination_floor = index_handler(next)])
                ELSE CAR_NOTIFY(b)
      [] OTHER -> b

\* The block after the operation; the block itself when the operation is
\* refused (the process exits without a broadcast).
internal(b, operation) ==
    CASE operation = "open" -> CAR_NOTIFY([b EXCEPT !.open_button = 1])
      [] operation = "close" -> CAR_NOTIFY([b EXCEPT !.close_button = 1])
      [] operation = "stop" -> CAR_NOTIFY([b EXCEPT !.emergency_stop = 1])
      [] operation = "service_on" ->
            CAR_NOTIFY([b EXCEPT !.individual_service_mode = 1, !.emergency_mode = 0])
      [] operation = "service_off" -> CAR_NOTIFY([b EXCEPT !.individual_service_mode = 0])
      [] operation \in {"up", "down"} ->
            IF b.individual_service_mode = 0 \/ b.status # "Closed" THEN b
            ELSE LET cur == floor_num_handler(b.current_floor)
                     step == IF operation = "up" THEN 1 ELSE 0 - 1
                     next == IF cur.out + step = 0 THEN step ELSE cur.out + step
                 IN  IF cur.ok
                     THEN CAR_NOTIFY([b EXCEPT !.destination_floor = index_handler(next)])
                     ELSE CAR_NOTIFY(b)
      [] OTHER -> b

\* The exit status of internal: 1 after a diagnostic, 0 at the end of main.
internal_exit(b, operation) ==
    IF operation \in {"up", "down"}
    THEN IF b.individual_service_mode = 0 \/ b.status = "Between" \/ b.status # "Closed"
         THEN 1 ELSE 0
    ELSE IF operation \in Operations THEN 0 ELSE 1

Panel(operation) ==
    /\ g_car.running
    /\ shm' = internal(shm, operation)
    /\ UNCHANGED <<g_car, to_car, to_ctrl>>

(***************************************************************************)
(* The safety monitor (safety.c).                                          *)
(***************************************************************************)
\* A monitor that ends the emergency on a wake-up without a stop or an overload.
safety_recovers(b) ==
    IF b.emergency_stop = 0 /\ b.overload = 0
    THEN [b EXCEPT !.safety_system = 1, !.emergency_mode = 0]
    ELSE [b EXCEPT !.safety_system = 1, !.emergency_mode = 1, !.emergency_stop = 0]

\* The block after the monitor has processed one wake-up.
safety(b) ==
    LET b1 == IF b.safety_system # 1 THEN [b EXCEPT !.safety_system = 1] ELSE b
        b2 == IF b1.status = "Closing" /\ b1.door_obstruction = 1
              THEN [b1 EXCEPT !.status = "Opening"] ELSE b1
        is_valid_status == b2.status \in {"Closed", "Opening", "Open", "Closing", "Between"}
        valid_cur_floor == floor_num_handler(b2.current_floor).ok
        valid_dst_floor == floor_num_handler(b2.destination_floor).ok
        are_valid_fields ==
            /\ b2.open_button \in {0, 1}
            /\ b2.close_button \in {0, 1}
            /\ b2.door_obstruction \in {0, 1}
            /\ b2.overload \in {0, 1}
            /\ b2.emergency_stop \in {0, 1}
            /\ b2.individual_service_mode \in {0, 1}
            /\ b2.emergency_mode \in {0, 1}
        is_valid_obstruction ==
            b2.door_obstruction = 1 \/ b2.status = "Closing" \/ b2.status = "Opening"
    IN  IF b2.emergency_stop = 1 /\ b2.emergency_mode = 0
        THEN [b2 EXCEPT !.emergency_mode = 1, !.emergency_stop = 0]
        ELSE IF b2.overload = 1 /\ b2.emergency_mode = 0
        THEN [b2 EXCEPT !.emergency_mode = 1]
        ELSE IF /\ b2.emergency_mode # 1
                /\ \/ ~valid_cur_floor
                   \/ ~valid_dst_floor
                   \/ ~is_valid_status
                   \/ ~are_valid_fields
                   \/ ~is_valid_obstruction
        THEN [b2 EXCEPT !.emergency_mode = 1]
        ELSE b2

\* The monitor locks the block and blocks in pthread_cond_wait.
SafetyWait ==
    /\ shm.cond = "idle"
    /\ shm' = [shm EXCEPT !.cond = "waiting"]
    /\ UNCHANGED <<g_car, to_car, to_ctrl>>

\* The monitor, woken by a broadcast, processes the block and unlocks.
SafetyWakeup ==
    /\ shm.cond = "signalled"
    /\ shm' = [safety(shm) EXCEPT !.cond = "idle"]
    /\ UNCHANGED <<g_car, to_car, to_ctrl>>

\* What neither the car, the panel nor the monitor touches in the controller.
ctrlvars == <<g_cars, conn, sent, accepted>>

(***************************************************************************)
(* The safety monitor and the panel on a block of any content: the block   *)
(* is shared memory that every process of the host can write.              *)
(***************************************************************************)
SafetyBlocks ==
    [current_floor : {<<"1">>, <<"x">>}, destination_floor : {<<"2">>, <<"B", "0">>},
     status : {"Closed", "Opening", "Open", "Closing", "Between", "Broken"},
     open_button : {0, 2}, close_button : {0}, safety_system : {0, 1},
     door_obstruction : {0, 1, 2}, overload : {0, 1}, emergency_stop : {0, 1},
     individual_service_mode : {0, 1}, emergency_mode : {0, 1}, cond : {"idle"}]

SafetyInit ==
    /\ g_cars = [i \in Slots |-> ZeroCar]
    /\ conn = [c \in ConnIds |-> IdleConn]
    /\ sent = <<>>
    /\ accepted = {}
    /\ g_car = StartedCar(<<"3">>)
    /\ shm \in SafetyBlocks
    /\ to_car = <<>>
    /\ to_ctrl = <<>>
    /\ inputs = 0

SafetyNext ==
    \/ SafetyWait /\ UNCHANGED <<ctrlvars, inputs>>
    \/ SafetyWakeup /\ UNCHANGED <<ctrlvars, inputs>>
    \/ \E operation \in Operations : Panel(operation) /\ UNCHANGED <<ctrlvars, inputs>>

SafetySpec == SafetyInit /\ [][SafetyNext]_vars

(***************************************************************************)
(* The car process with its peers: the panel, the safety monitor and a     *)
(* controller that has registered the car, sends it FLOOR frames and       *)
(* copies its STATUS frames into the block.                                *)
(***************************************************************************)
\* The labels the controller sends to a car of range 1..3.
FloorLabels == { index_handler(f) : f \in 1..3 }

\* send_car: a FLOOR frame reaches the car's socket.
PeerFloor(label) ==
    /\ g_car.link = "up"
    /\ Len(to_car) < MaxInFlight
    /\ to_car' = Append(to_car, FloorFrame(1, label))
    /\ UNCHANGED <<shm, g_car, to_ctrl>>

\* The controller reads the car's next frame: shm_attach_car on CAR,
\* fetch_shm_status on STATUS; the mode frames are ignored.
PeerRead ==
    /\ to_ctrl # <<>>
    /\ to_ctrl' = Tail(to_ctrl)
    /\ LET frame == Head(to_ctrl)
           f == Scan3(frame.toks, 2)
       IN  shm' = CASE frame.type = "CAR" ->
                         shm_attach_car(shm, [cur_floor |-> f[1], dst_floor |-> f[1]])
                    [] frame.type = "STATUS" -> fetch_shm_status(shm, frame.status, f[1], f[2])
                    [] OTHER -> shm
    /\ UNCHANGED <<g_car, to_car>>

CarInit ==
    /\ g_cars = [i \in Slots |-> ZeroCar]
    /\ conn = [c \in ConnIds |-> IdleConn]
    /\ sent = <<>>
    /\ accepted = {}
    /\ g_car = StartedCar(<<"3">>)
    /\ shm = NewBlock(g_car.lowest)
    /\ to_car = <<>>
    /\ to_ctrl = <<>>
    /\ inputs = 0

\* The door sensor: it writes door_obstruction into the block and broadcasts.
Sensor(obstructed) ==
    /\ g_car.running
    /\ shm' = CAR_NOTIFY([shm EXCEPT !.door_obstruction = obstructed])
    /\ UNCHANGED <<g_car, to_car, to_ctrl>>

\* One more input from the car's surroundings, MaxInputs at most.
Input == inputs < MaxInputs /\ inputs' = inputs + 1

\* A step of the car process or of the monitor.
Alone == UNCHANGED <<ctrlvars, inputs>>

CarNext ==
    \/ Wait /\ Alone
    \/ IsServiceMode /\ Alone
    \/ IsEmergencyMode /\ Alone
    \/ AtDestination /\ Alone
    \/ FetchStatus /\ Alone
    \/ StatusWrite /\ Alone
    \/ SleepRead /\ Alone
    \/ OpenWindow /\ Alone
    \/ SleepClosed /\ Alone
    \/ ExistsPending /\ Alone
    \/ Move /\ Alone
    \/ ServiceRead /\ Alone
    \/ ServiceReset /\ Alone
    \/ Buttons /\ Alone
    \/ Connect /\ Alone
    \/ FirstStatus /\ Alone
    \/ RxFloor /\ Alone
    \/ RxStore /\ Alone
    \/ TxTake /\ Alone
    \/ TxPost /\ Alone
    \/ (\E late \in BOOLEAN : TxTick(late)) /\ Alone
    \/ TxAlarm /\ Alone
    \/ TxMode /\ Alone
    \/ PeerRead /\ Alone
    \/ SafetyWait /\ Alone
    \/ SafetyWakeup /\ Alone
    \/ \E label \in FloorLabels : PeerFloor(label) /\ Input /\ UNCHANGED ctrlvars
    \/ \E operation \in Operations : Panel(operation) /\ Input /\ UNCHANGED ctrlvars
    \/ \E obstructed \in {0, 1} : Sensor(obstructed) /\ Input /\ UNCHANGED ctrlvars

CarSpec == CarInit /\ [][CarNext]_vars

(***************************************************************************)
(* The car in normal mode connected to the controller: the car's frames    *)
(* reach the controller's thread for connection 1, the controller's FLOOR  *)
(* frames reach the car, and call clients connect on connection 3.         *)
(*                                                                         *)
(* Timing: a sleep of delay_ms in the main thread (status_handler,         *)
(* open_status_handler, the open window's timeout) outlasts the reaction   *)
(* of the link threads and of the controller, so it ends only once they    *)
(* have settled, and the transmit thread reads the clock before the        *)
(* timeout it has just set has passed.  While the car's queue is not empty *)
(* the link threads and the controller never all rest:                     *)
(* each STATUS frame is answered by a FLOOR frame and each FLOOR frame     *)
(* stored outside Between raises the transmit flag again; the sleep then   *)
(* ends while that FLOOR frame is in flight.                               *)
(*                                                                         *)
(* Fairness: every thread of the car and of the controller keeps running   *)
(* (weak fairness); the main thread, whose timed wait rechecks a condition *)
(* that other threads switch on and off, proceeds when the condition holds *)
(* again and again (strong fairness); every sleep ends; call clients need  *)
(* not call.                                                               *)
(***************************************************************************)
CarConn == 1

CallConn == MaxCarConn + 1

\* <src> <dst> of the CALL frames sent to the controller.
LiveCalls == { <<a, b>> : a \in {<<"1">>, <<"2">>}, b \in {<<"1">>, <<"2">>} }

LiveInit ==
    /\ g_cars = [i \in Slots |-> ZeroCar]
    /\ conn = [c \in ConnIds |-> IdleConn]
    /\ sent = <<>>
    /\ accepted = {}
    /\ g_car = StartedCar(<<"2">>)
    /\ shm = NewBlock(g_car.lowest)
    /\ to_car = <<>>
    /\ to_ctrl = <<>>
    /\ inputs = 0

\* The car's next frame is at the controller.
Arrived(type) == to_ctrl # <<>> /\ Head(to_ctrl).type = type

\* The socket in the car's registry entry is the car's connection: the car has
\* a connection and its CAR frame has been read.
Linked == g_car.link \in {"hello", "up"} /\ ~Arrived("CAR")

\* The FLOOR frames of the controller's step go out on the car's socket; on a
\* socket whose connection is gone send_frame fails and the frames are lost.
Deliver ==
    IF Linked
    THEN /\ Len(to_car) < MaxInFlight
         /\ to_car' = to_car \o SelectSeq(sent', LAMBDA frame : frame.type = "FLOOR")
    ELSE to_car' = to_car

\* The link threads and the controller's threads have nothing left to do,
\* but for a frame in flight to the car.
Settled ==
    /\ g_car.g_tx_flag = 0 /\ g_car.tx = "wait" /\ g_car.rx = "recv"
    /\ to_ctrl = <<>>
    /\ conn[CarConn].pc = "car" /\ conn[CallConn].pc # "enqueue"

MainStep ==
    /\ \/ Wait
       \/ IsServiceMode
       \/ IsEmergencyMode
       \/ AtDestination
       \/ FetchStatus
       \/ StatusWrite
       \/ ExistsPending
       \/ Move
       \/ Buttons
    /\ Alone

\* The main thread is in one of its timed pauses (usleep of the delay).
Sleeping == MainAt("sleep_read") \/ MainAt("open_window") \/ MainAt("sleep_closed")

SleepStep ==
    /\ Settled
    /\ \/ SleepRead
       \/ OpenWindow
       \/ SleepClosed
    /\ Alone

TcpStep == (Connect \/ FirstStatus) /\ Alone

RxStep == (RxFloor \/ RxStore) /\ Alone

\* The transmit thread reads the clock right after it has set its timeout a
\* delay ahead: no tick is counted.
TxStep == (TxTake \/ TxPost \/ TxTick(FALSE) \/ TxMode) /\ Alone

\* The controller's thread for the car's connection.
CtrlCarStep ==
    \/ /\ g_car.link \in {"hello", "up"}
       /\ Accept(CarConn)
       /\ UNCHANGED carvars
    \/ /\ Arrived("CAR")
       /\ Register(CarConn, Head(to_ctrl).name, Head(to_ctrl).toks)
       /\ to_ctrl' = Tail(to_ctrl)
       /\ UNCHANGED <<g_car, to_car, inputs>>
    \/ /\ AttachBlock(CarConn)
       /\ UNCHANGED carvars
    \/ /\ Arrived("STATUS")
       /\ StatusUpdate(CarConn, Head(to_ctrl).status, Head(to_ctrl).toks)
       /\ to_ctrl' = Tail(to_ctrl)
       /\ UNCHANGED <<g_car, to_car, inputs>>
    \/ /\ Schedule(CarConn)
       /\ Deliver
       /\ UNCHANGED <<g_car, to_ctrl, inputs>>

\* A call client connects and sends its CALL frame.
CallStep ==
    \/ /\ Accept(CallConn)
       /\ UNCHANGED carvars
    \/ /\ \E toks \in LiveCalls : CallSelect(CallConn, toks)
       /\ Input
       /\ UNCHANGED <<g_car, to_car, to_ctrl>>

\* The controller's thread for the call: enqueue and send_car.
CtrlCallStep ==
    /\ CallEnqueue(CallConn)
    /\ Deliver
    /\ UNCHANGED <<g_car, to_ctrl, inputs>>

LiveNext ==
    \/ MainStep
    \/ SleepStep
    \/ TcpStep
    \/ RxStep
    \/ TxStep
    \/ CtrlCarStep
    \/ CallStep
    \/ CtrlCallStep

\* Every thread that can run does run; the main thread, whose wait condition
\* other threads switch on and off, sees it whenever it holds again and again;
\* and no sleep of the main thread lasts for ever.
LiveSpec ==
    /\ LiveInit
    /\ [][LiveNext]_vars
    /\ SF_vars(MainStep) /\ WF_vars(TcpStep) /\ WF_vars(RxStep) /\ WF_vars(TxStep)
    /\ WF_vars(CtrlCarStep) /\ WF_vars(CtrlCallStep)
    /\ SF_vars(SleepStep)
    /\ []<>~Sleeping

(***************************************************************************)
(* The car on a host without a controller (connect fails, no link thread   *)
(* runs), with the panel, the door sensor and the safety monitor.  Every   *)
(* process that can run does run; the panel and the sensor need not act.   *)
(***************************************************************************)
\* service_between's read of the floors and its reset of the destination.
ServiceStep == (ServiceRead \/ ServiceReset) /\ Alone

\* The ends of the main thread's timed pauses.
PauseStep == (SleepRead \/ OpenWindow \/ SleepClosed) /\ Alone

MonitorStep == (SafetyWait \/ SafetyWakeup) /\ Alone

\* The panel operations and sensor changes in one run.
MaxPanelInputs == 4

PanelInput == inputs < MaxPanelInputs /\ inputs' = inputs + 1

PanelStep == \E operation \in Operations : Panel(operation) /\ PanelInput /\ UNCHANGED ctrlvars

SensorStep == \E obstructed \in {0, 1} : Sensor(obstructed) /\ PanelInput /\ UNCHANGED ctrlvars

PanelNext ==
    \/ MainStep
    \/ ServiceStep
    \/ PauseStep
    \/ MonitorStep
    \/ PanelStep
    \/ SensorStep

PanelSpec ==
    /\ CarInit
    /\ [][PanelNext]_vars
    /\ WF_vars(MainStep) /\ WF_vars(ServiceStep) /\ WF_vars(PauseStep)
    /\ WF_vars(MonitorStep)

(***************************************************************************)
(* The connected car with its modes: as above, with the panel's service    *)
(* switch, a transmit thread that may find its timeout passed (with no     *)
(* safety monitor on the host every such tick counts), and a network that  *)
(* may cut the connection.  Calls are from floor 1 to floor 2.             *)
(*                                                                         *)
(* Fairness: as above; moreover a transmit thread that reads the clock     *)
(* again and again finds the timeout passed at some time.  The panel, the  *)
(* call clients and the network need not act.                              *)
(***************************************************************************)
ModeCalls == { <<<<"1">>, <<"2">>>> }

ModeOperations == {"service_on", "service_off"}

\* tcp_car_thread on "INDIVIDUAL SERVICE" or "EMERGENCY": the frame is ignored
\* and the connection kept.
ModeIgnore(c) ==
    /\ conn[c].pc = "car"
    /\ sent' = <<>>
    /\ UNCHANGED <<g_cars, conn, accepted, shm>>

\* The network cuts the car's connection: the frames in flight are lost and
\* every later receive and send on either end fails.
Cut ==
    /\ g_car.link = "up"
    /\ g_car' = [g_car EXCEPT !.link = "cut"]
    /\ to_car' = <<>>
    /\ to_ctrl' = <<>>
    /\ UNCHANGED shm

\* As Settled, for a link that may have ended or be down.
Quiet ==
    /\ g_car.tx \in {"off", "wait", "done"} /\ g_car.rx \in {"off", "recv", "done"}
    /\ g_car.tx = "wait" => g_car.g_tx_flag = 0
    /\ ~(g_car.rx = "done" /\ g_car.tx = "done")
    /\ g_car.rx = "recv" => g_car.link # "cut"
    /\ to_ctrl = <<>>
    /\ conn[CarConn].pc \in {"free", "car"} /\ conn[CallConn].pc # "enqueue"
    /\ conn[CarConn].pc = "car" => Linked

ModeSleepStep ==
    /\ Quiet
    /\ \/ SleepRead
       \/ OpenWindow
       \/ SleepClosed
    /\ Alone

\* The transmit thread finds its timeout passed.
TxLateStep == (TxTick(TRUE) \/ TxAlarm) /\ Alone

\* The link threads end and tcp_thread closes the socket.
LinkEndStep == (RxEnd \/ LinkEnd) /\ Alone

\* The controller's thread for the car's connection, with the frames of a car
\* that changes its mode; on a connection that is gone its receive fails.
ModeCtrlStep ==
    \/ CtrlCarStep
    \/ /\ \E type \in {"INDIVIDUAL SERVICE", "EMERGENCY"} : Arrived(type)
       /\ ModeIgnore(CarConn)
       /\ to_ctrl' = Tail(to_ctrl)
       /\ UNCHANGED <<g_car, to_car, inputs>>
    \/ /\ ~Linked
       /\ CarClose(CarConn)
       /\ UNCHANGED carvars

ModeCallStep ==
    \/ /\ Accept(CallConn)
       /\ UNCHANGED carvars
    \/ /\ \E toks \in ModeCalls : CallSelect(CallConn, toks)
       /\ Input
       /\ UNCHANGED <<g_car, to_car, to_ctrl>>

SwitchStep == \E operation \in ModeOperations : Panel(operation) /\ Input /\ UNCHANGED ctrlvars

CutStep == Cut /\ Input /\ UNCHANGED ctrlvars

ModeNext ==
    \/ MainStep
    \/ ServiceStep
    \/ ModeSleepStep
    \/ TcpStep
    \/ RxStep
    \/ TxStep
    \/ TxLateStep
    \/ LinkEndStep
    \/ ModeCtrlStep
    \/ ModeCallStep
    \/ CtrlCallStep
    \/ SwitchStep
    \/ CutStep

ModeSpec ==
    /\ LiveInit
    /\ [][ModeNext]_vars
    /\ SF_vars(MainStep) /\ WF_vars(ServiceStep)
    /\ WF_vars(TcpStep) /\ WF_vars(RxStep) /\ WF_vars(TxStep)
    /\ SF_vars(TxLateStep) /\ WF_vars(LinkEndStep)
    /\ WF_vars(ModeCtrlStep) /\ WF_vars(CtrlCallStep)
    /\ SF_vars(ModeSleepStep)
    /\ []<>~Sleeping

(***************************************************************************)
(* C1.  As claimed: every pair accepted by a single CALL whose two floors  *)
(* are both still in the car's queue has src before dst.                   *)
(***************************************************************************)
C1_EveryAcceptedPairOrdered ==
    \A p \in accepted : Ordered(g_cars[0].q, p)

\* C1 as amended: right after the enqueue of an accepted CALL (src, dst), src
\* is before dst when both are queued; and a pair that is in order stays in
\* order while both its floors stay queued, unless the step is a CALL whose
\* dst is the pair's src (enqueue then moves that floor to the tail).
C1_PairOrderedUntilSrcCalledAsDst ==
    [][ /\ \A src \in QFloors, dst \in QFloors :
              (QCall(src, dst) /\ BothIn(g_cars'[0].q, <<src, dst>>))
                  => Ordered(g_cars'[0].q, <<src, dst>>)
        /\ \A p \in accepted :
              (Ordered(g_cars[0].q, p) /\ BothIn(g_cars'[0].q, p)
                   /\ ~Ordered(g_cars'[0].q, p))
                  => \E src \in QFloors : QCall(src, p[1]) ]_vars

\* Two accepted pairs name the same floors in opposite order and both floors
\* are queued: the later call has reordered the earlier pair.
C1_Witness ==
    \E p \in accepted : <<p[2], p[1]>> \in accepted /\ Len(g_cars[0].q) = MAX_QUEUE

(***************************************************************************)
(* C2.  As claimed: the queue never holds a floor twice, and repeating an  *)
(* accepted CALL whose two floors are still queued leaves the queue        *)
(* unchanged.                                                              *)
(***************************************************************************)
NoDuplicates(q) == \A i \in 1..Len(q), j \in 1..Len(q) : q[i] = q[j] => i = j

C2_RepeatLeavesQueueUnchanged ==
    [][ \A p \in accepted : QCall(p[1], p[2]) => g_cars'[0].q = g_cars[0].q ]_vars

\* C2 as amended: the queue never holds a floor twice, and a CALL whose two
\* floors are queued with src ahead of dst leaves the queue unchanged.
C2_NoDuplicateFloors ==
    /\ [](NoDuplicates(g_cars[0].q))
    /\ [][ \A src \in QFloors, dst \in QFloors :
              (QCall(src, dst) /\ BothIn(g_cars[0].q, <<src, dst>>)
                   /\ Ordered(g_cars[0].q, <<src, dst>>))
                  => g_cars'[0].q = g_cars[0].q ]_vars

\* Two accepted pairs share a floor and the queue is full: the shared floor is
\* queued once.
C2_Witness ==
    /\ Len(g_cars[0].q) = MAX_QUEUE
    /\ \E p \in accepted, r \in accepted : p # r /\ p[2] = r[1]

(***************************************************************************)
(* C3.  At most one in-use registry entry carries a given car name, under  *)
(* any interleaving of registrations (also of the same name) and removals. *)
(***************************************************************************)
C3_OneEntryPerName ==
    \A i \in Slots, j \in Slots :
        (g_cars[i].in_use = 1 /\ g_cars[j].in_use = 1 /\ g_cars[i].name = g_cars[j].name)
            => i = j

\* Two connections have registered the same name and both threads are still
\* running; the name's entry belongs to one of them.
C3_Witness ==
    \E c \in CarConns, d \in CarConns :
        /\ c # d
        /\ conn[c].pc \in {"car", "sched"} /\ conn[d].pc \in {"car", "sched"}
        /\ conn[c].name = conn[d].name
        /\ \E i \in Slots : g_cars[i].in_use = 1 /\ g_cars[i].name = conn[c].name
                              /\ g_cars[i].socket_fd = d

(***************************************************************************)
(* C4.  A CALL with two valid, different floors is answered CAR <name>     *)
(* exactly when some in-use entry covers both floors, with the name of the *)
(* lowest such slot; otherwise it is answered UNAVAILABLE.                 *)
(***************************************************************************)
AllDigits(s) == \A k \in 1..Len(s) : s[k] \in Digits

\* A floor label of the data model: decimal 1..999, or B followed by 1..99.
IsFloorLabel(l) ==
    \/ Len(l) \in 1..3 /\ AllDigits(l) /\ l[1] # "0"
    \/ Len(l) \in 2..3 /\ l[1] = "B" /\ AllDigits(Tail(l)) /\ l[2] # "0"

FloorOf(l) == floor_num_handler(l).out

Covers(i, src, dst) ==
    /\ g_cars[i].in_use = 1
    /\ g_cars[i].lowest_floor <= src /\ src <= g_cars[i].highest_floor
    /\ g_cars[i].lowest_floor <= dst /\ dst <= g_cars[i].highest_floor

ValidCall(toks) ==
    /\ Len(toks) = 2
    /\ IsFloorLabel(toks[1]) /\ IsFloorLabel(toks[2])
    /\ FloorOf(toks[1]) # FloorOf(toks[2])

C4_FirstCoveringCarAnswers ==
    [][ \A c \in CallConns, toks \in CallInputs :
          (ValidCall(toks) /\ CallSelect(c, toks)) =>
              LET src == FloorOf(toks[1])
                  dst == FloorOf(toks[2])
              IN  /\ (\E i \in Slots : Covers(i, src, dst)) =>
                        \E i \in Slots :
                            /\ Covers(i, src, dst)
                            /\ \A j \in Slots : j < i => ~Covers(j, src, dst)
                            /\ sent' = <<CarFrame(c, g_cars[i].name)>>
                  /\ ~(\E i \in Slots : Covers(i, src, dst)) =>
                        sent' = <<UnavailableFrame(c)>> ]_vars

\* A call was just answered with the name in slot 1 while slot 0 holds a car
\* that does not cover the call.
C4_Witness ==
    \E c \in CallConns :
        /\ conn[c].pc = "enqueue"
        /\ g_cars[0].in_use = 1 /\ g_cars[1].in_use = 1
        /\ ~Covers(0, conn[c].src, conn[c].dst)
        /\ Covers(1, conn[c].src, conn[c].dst)
        /\ sent = <<CarFrame(c, g_cars[1].name)>>

(***************************************************************************)
(* C5.  As claimed: a CALL in which a floor label is invalid or src equals *)
(* dst is answered UNAVAILABLE, changes no registry entry and no queue,    *)
(* and leads to no FLOOR frame (the thread does not go on to enqueue).     *)
(***************************************************************************)
C5_InvalidCallRejected ==
    [][ \A c \in CallConns, toks \in CallInputs :
          (~ValidCall(toks) /\ CallSelect(c, toks)) =>
              /\ sent' = <<UnavailableFrame(c)>>
              /\ g_cars' = g_cars
              /\ conn'[c].pc = "free" ]_vars

(***************************************************************************)
(* C6.  As claimed: processing a STATUS frame for a car removes the queue  *)
(* head exactly when the frame reports Opening at the head floor, removes  *)
(* nothing else, keeps the order, and then sends FLOOR <head> exactly when *)
(* the queue is not empty.                                                 *)
(***************************************************************************)
C6_DequeueIffReportedOpeningAtHead ==
    [][ \A c \in CarConns :
          (Schedule(c) /\ find_registry(g_cars, conn[c].name) >= 0) =>
              LET i == find_registry(g_cars, conn[c].name)
                  q == g_cars[i].q
                  q2 == g_cars'[i].q
                  reported == /\ q # <<>>
                              /\ conn[c].status = "Opening"
                              /\ conn[c].curr_floor = index_handler(q[1])
              IN  /\ q2 = IF reported THEN Tail(q) ELSE q
                  /\ sent' = IF q2 = <<>> THEN <<>>
                             ELSE <<FloorFrame(g_cars[i].socket_fd, index_handler(q2[1]))>> ]_vars

(***************************************************************************)
(* C10.  As claimed: a wake-up of the safety monitor that finds            *)
(* emergency_mode = 0, emergency_stop = 0, overload = 0 and one of the     *)
(* invariants 1-4 violated (a status outside the five values, a floor      *)
(* label that does not parse, a flag other than 0/1, or door_obstruction = *)
(* 1 while the status is neither Opening nor Closing) sets emergency_mode  *)
(* to 1.                                                                   *)
(***************************************************************************)
DoorStatus == {"Closed", "Opening", "Open", "Closing", "Between"}

Flags(b) ==
    {b.open_button, b.close_button, b.door_obstruction, b.overload, b.emergency_stop,
     b.individual_service_mode, b.emergency_mode}

ObstructedOutsideDoorMove(b) ==
    b.door_obstruction = 1 /\ b.status \notin {"Opening", "Closing"}

ViolatesBlockInvariant(b) ==
    \/ b.status \notin DoorStatus
    \/ ~floor_num_handler(b.current_floor).ok
    \/ ~floor_num_handler(b.destination_floor).ok
    \/ ~(Flags(b) \subseteq {0, 1})
    \/ ObstructedOutsideDoorMove(b)

C10_ViolationForcesEmergency ==
    [][ ( /\ SafetyWakeup
          /\ shm.emergency_mode = 0 /\ shm.emergency_stop = 0 /\ shm.overload = 0
          /\ ViolatesBlockInvariant(shm) )
            => shm'.emergency_mode = 1 ]_vars

(***************************************************************************)
(* C8.  As claimed: in every interleaving of the receive thread with the   *)
(* main loop, the receive thread stores a FLOOR label that it handles      *)
(* while status = Between in the pending slot, never in destination_floor. *)
(***************************************************************************)
C8_NoDestinationWriteWhileBetween ==
    [][ (RxStore /\ shm.status = "Between") => g_car.between ]_vars

(***************************************************************************)
(* C9.  The status field of the shared block is always one of Closed,      *)
(* Opening, Open, Closing, Between, whoever wrote it last: the car, the    *)
(* safety monitor or the controller copying a STATUS frame (the panel      *)
(* never writes it).                                                       *)
(***************************************************************************)
C9_StatusIsOneOfFive == shm.status \in DoorStatus

\* The car wrote Closing and sleeps; the monitor, seeing the obstruction, has
\* since written Opening.
C9_Witness ==
    /\ MainAt("sleep_closed")
    /\ shm.status = "Opening" /\ shm.door_obstruction = 1 /\ shm.safety_system = 1
    /\ to_ctrl = <<>>

(***************************************************************************)
(* C7.  As claimed: with the car connected in normal mode, every floor in  *)
(* the car's queue is eventually dequeued.                                 *)
(***************************************************************************)
C7_EveryQueuedFloorDequeued ==
    \A f \in 1..2 : in_queue(g_cars[0].q, f) ~> ~in_queue(g_cars[0].q, f)

(***************************************************************************)
(* C11.  As claimed: once emergency_stop has been set to 1 with a          *)
(* broadcast while emergency_mode = 0 and the monitor is running (it has   *)
(* completed a wake-up: safety_system = 1), emergency_mode = 1 and         *)
(* emergency_stop = 0 follow, whatever the monitor was doing at the write  *)
(* and although the panel could still act.                                 *)
(***************************************************************************)
C11_StopLeadsToEmergency ==
    ( /\ shm.emergency_stop = 1 /\ shm.emergency_mode = 0
      /\ shm.safety_system = 1 /\ inputs < MaxPanelInputs )
        ~> (shm.emergency_mode = 1 /\ shm.emergency_stop = 0)

(***************************************************************************)
(* C12.  As claimed: after emergency_mode has become 1 on a connected car  *)
(* the car sends EMERGENCY and disconnects and the controller removes the  *)
(* car's registry entry, so that calls for its floors are answered         *)
(* UNAVAILABLE: a registered, connected car in emergency mode leads to a   *)
(* registry without an entry of its name.                                  *)
(***************************************************************************)
Registered == find_registry(g_cars, g_car.name) >= 0

Connected == g_car.link = "up" /\ conn[CarConn].pc \in {"car", "sched"} /\ Registered

C12_EmergencyCarRemoved ==
    (Connected /\ shm.emergency_mode = 1) ~> ~Registered

(***************************************************************************)
(* C13.  As claimed: with no safety monitor running, a connected car in    *)
(* normal mode does not stay so: the transmit thread counts missed ticks   *)
(* and sets emergency_mode (unless the car is put in service mode or the   *)
(* connection is lost first), also when the car is idle.                   *)
(***************************************************************************)
NormalMode == shm.individual_service_mode = 0 /\ shm.emergency_mode = 0

C13_MissedTicksLeadToEmergency ==
    (g_car.link = "up" /\ NormalMode) ~> (g_car.link # "up" \/ ~NormalMode)

(***************************************************************************)
(* C18.  As claimed: once individual_service_mode or emergency_mode is 1   *)
(* on a car whose link is up, the link is terminated (both link threads    *)
(* have ended and tcp_thread has closed the socket), unless the mode is    *)
(* left or the network cuts the connection first; the controller keeps     *)
(* its side open.                                                          *)
(***************************************************************************)
C18_ModeEndsLink ==
    (g_car.link = "up" /\ ~NormalMode) ~> (g_car.link \in {"down", "cut"} \/ NormalMode)

(***************************************************************************)
(* The car with its transmit thread's watchdog and the safety monitor.     *)
(* The run starts after the monitor's first wake-up: the door sensor has   *)
(* reported an obstruction, its broadcast has woken the monitor, and the   *)
(* monitor has set safety_system to 1 and unlocked the block.  The peer    *)
(* sends FLOOR frames and the sensor may change.                           *)
(***************************************************************************)
WatchInit ==
    /\ g_cars = [i \in Slots |-> ZeroCar]
    /\ conn = [c \in ConnIds |-> IdleConn]
    /\ sent = <<>>
    /\ accepted = {}
    /\ g_car = StartedCar(<<"3">>)
    /\ shm = [safety(CAR_NOTIFY([NewBlock(g_car.lowest) EXCEPT !.cond = "waiting",
                                                              !.door_obstruction = 1]))
                 EXCEPT !.cond = "idle"]
    /\ to_car = <<>>
    /\ to_ctrl = <<>>
    /\ inputs = 0

FloorStep == \E label \in FloorLabels : PeerFloor(label) /\ Input /\ UNCHANGED ctrlvars

DoorStep == \E obstructed \in {0, 1} : Sensor(obstructed) /\ Input /\ UNCHANGED ctrlvars

PeerStep == PeerRead /\ Alone

WatchNext ==
    \/ MainStep
    \/ PauseStep
    \/ TcpStep
    \/ RxStep
    \/ TxStep
    \/ TxLateStep
    \/ MonitorStep
    \/ PeerStep
    \/ FloorStep
    \/ DoorStep

WatchSpec == WatchInit /\ [][WatchNext]_vars

(***************************************************************************)
(* C14.  As claimed: with the safety monitor running and its first wake-up *)
(* done, the transmit thread never counts safety_system up to 3, so it     *)
(* never reaches the statements that set emergency_mode by the missed-tick *)
(* rule, however its ticks interleave with the monitor's wake-ups.         *)
(***************************************************************************)
C14_WatchdogNeverFires == g_car.tx # "alarm"

(***************************************************************************)
(* C15.  In normal mode with status Open and close_button = 0, the main    *)
(* thread's step in its open window clears an open_button that is 1, keeps *)
(* status Open and stays in the window with a new countdown; with          *)
(* open_button = 0 the step is the end of the countdown and sets status    *)
(* to Closing.                                                             *)
(***************************************************************************)
InOpenWindow == MainAt("open_window") /\ shm.status = "Open" /\ NormalMode

C16_ClosePressEndsWindow ==
    [][ (OpenWindow /\ InOpenWindow /\ shm.close_button = 1)
          => /\ shm'.status = "Closing"
             /\ shm'.close_button = 0
             /\ shm'.open_button = shm.open_button
             /\ ~MainAt("open_window")' ]_vars

C16_Witness == InOpenWindow /\ shm.close_button = 1 /\ shm.open_button = 1

(***************************************************************************)
(* C17.  As claimed: no step of the car appends a STATUS frame to the      *)
(* frames on their way to the controller while individual_service_mode is  *)
(* 1 in the shared block.                                                  *)
(***************************************************************************)
C17_NoStatusInServiceMode ==
    [][ ( /\ Len(to_ctrl') = Len(to_ctrl) + 1
          /\ to_ctrl'[Len(to_ctrl')].type = "STATUS" )
          => shm.individual_service_mode = 0 ]_vars

(***************************************************************************)
(* C19.  As claimed: the main thread never starts a move while             *)
(* emergency_mode is 1: no step of it writes status Between over Closed    *)
(* in a block whose emergency_mode is 1, with or without service mode.     *)
(***************************************************************************)
C19_NoMoveInEmergency ==
    [][ (StatusWrite /\ Top[2] = "Between" /\ shm.status = "Closed")
          => shm.emergency_mode = 0 ]_vars

(***************************************************************************)
(* C20.  As claimed: in service mode the main thread never starts a move   *)
(* (writes status Between over Closed) with a destination_floor that is    *)
(* more than one floor from current_floor in the block, wherever the       *)
(* destination came from.                                                  *)
(***************************************************************************)
\* The number of floors between the block's two floors (B1 is next to 1).
FloorsAway(b) ==
    LET current == floor_num_handler(b.current_floor).out
        destination == floor_num_handler(b.destination_floor).out
        low == IF destination >= current THEN current ELSE destination
        high == IF destination >= current THEN destination ELSE current
    IN  IF low < 0 /\ high > 0 THEN high - low - 1 ELSE high - low

\* service_between has called move_one_floor: main goes on with the buttons
\* of the service branch when the move is done.
ServiceMoveStarts ==
    /\ MainAt("write") /\ Top[2] = "Between"
    /\ Len(g_car.pc) >= 4 /\ g_car.pc[4][1] = "buttons"

C20_NoServiceMoveToFarFloor ==
    [][ ( /\ StatusWrite /\ ServiceMoveStarts
          /\ shm.status = "Closed" /\ shm.individual_service_mode = 1 )
          => FloorsAway(shm) <= 1 ]_vars

(***************************************************************************)
(* The car of PanelSpec with a basement: floors B1, 1 and 2, started at    *)
(* B1.                                                                     *)
(***************************************************************************)
BasementCar == [StartedCar(<<"2">>) EXCEPT !.lowest = <<"B", "1">>]

BasementInit ==
    /\ g_cars = [i \in Slots |-> ZeroCar]
    /\ conn = [c \in ConnIds |-> IdleConn]
    /\ sent = <<>>
    /\ accepted = {}
    /\ g_car = BasementCar
    /\ shm = NewBlock(g_car.lowest)
    /\ to_car = <<>>
    /\ to_ctrl = <<>>
    /\ inputs = 0

BasementSpec ==
    /\ BasementInit
    /\ [][PanelNext]_vars
    /\ WF_vars(MainStep) /\ WF_vars(ServiceStep) /\ WF_vars(PauseStep)
    /\ WF_vars(MonitorStep)

(***************************************************************************)
(* C21.  As claimed, for the two moves across index 0: in service mode     *)
(* with status Closed, once the panel's up at B1 has written destination   *)
(* 1 (its down at 1 has written destination B1), the car moves that one    *)
(* floor and stands at the destination.                                    *)
(***************************************************************************)
AcrossZero(from, to) ==
    /\ shm.individual_service_mode = 1 /\ shm.status = "Closed"
    /\ shm.current_floor = from /\ shm.destination_floor = to

C21_ServiceMoveAcrossZero ==
    /\ AcrossZero(<<"B", "1">>, <<"1">>) ~> (shm.current_floor = <<"1">>)
    /\ AcrossZero(<<"1">>, <<"B", "1">>) ~> (shm.current_floor = <<"B", "1">>)

(***************************************************************************)
(* C22.  On every block: up or down with individual_service_mode = 0 or a  *)
(* status other than Closed, and every operation internal does not know,   *)
(* exits with status 1 and leaves the block as it was.                     *)
(***************************************************************************)
\* Operations that internal.c does not know (strcmp tells upper from lower case).
UnknownOperations == {"UP", "service"}

Refused(b, operation) ==
    \/ operation \in {"up", "down"} /\ (b.individual_service_mode = 0 \/ b.status # "Closed")
    \/ operation \in UnknownOperations

C22_RefusedOperationChangesNothing ==
    \A operation \in Operations \cup UnknownOperations :
        Refused(shm, operation)
            => internal_exit(shm, operation) = 1 /\ internal(shm, operation) = shm

C22_Witness ==
    /\ shm.individual_service_mode = 1 /\ shm.status = "Open" /\ shm.emergency_stop = 1
    /\ shm.cond = "signalled"

(***************************************************************************)
(* C23.  As claimed: on every block, an operation of the panel that exits  *)
(* with status 0 leaves all fields of the block but one as they were (the  *)
(* one flag it sets, or destination_floor).                                *)
(***************************************************************************)
\* The fields of car_shared_mem after the mutex and the condition variable.
BlockFields ==
    {"current_floor", "destination_floor", "status", "open_button", "close_button",
     "safety_system", "door_obstruction", "overload", "emergency_stop",
     "individual_service_mode", "emergency_mode"}

ChangedFields(before, after) == { field \in BlockFields : before[field] # after[field] }

C23_OperationWritesOneField ==
    \A operation \in Operations :
        internal_exit(shm, operation) = 0
            => Cardinality(ChangedFields(shm, internal(shm, operation))) <= 1

(***************************************************************************)
(* C24.  A wake-up of the safety monitor leaves individual_service_mode    *)
(* as it is and never takes emergency_mode from 1 to another value; the    *)
(* fields it changes are among safety_system, status (from Closing to      *)
(* Opening only), emergency_mode (to 1 only) and emergency_stop (from 1    *)
(* to 0 only).                                                             *)
(***************************************************************************)
C24_MonitorWritesFourFields ==
    [][ SafetyWakeup
          => /\ shm'.individual_service_mode = shm.individual_service_mode
             /\ shm.emergency_mode = 1 => shm'.emergency_mode = 1
             /\ shm'.emergency_mode # shm.emergency_mode => shm'.emergency_mode = 1
             /\ shm'.status # shm.status
                    => shm.status = "Closing" /\ shm'.status = "Opening"
             /\ shm'.emergency_stop # shm.emergency_stop
                    => shm.emergency_stop = 1 /\ shm'.emergency_stop = 0
             /\ ChangedFields(shm, shm')
                    \subseteq {"safety_system", "status", "emergency_mode", "emergency_stop"}
      ]_vars

C24_Witness ==
    /\ shm.cond = "signalled"
    /\ shm.emergency_mode = 1 /\ shm.individual_service_mode = 1
    /\ shm.status = "Closing" /\ shm.door_obstruction = 1 /\ shm.emergency_stop = 1

(***************************************************************************)
(* C28.  As claimed: a wake-up of the monitor on a block with              *)
(* emergency_mode = 0, no emergency stop, no overload, one of the five     *)
(* status values, parsable floors, all flags 0 or 1 and                    *)
(* door_obstruction = 0 leaves emergency_mode = 0.                         *)
(***************************************************************************)
C28_SoundBlockStaysOutOfEmergency ==
    [][ ( /\ SafetyWakeup
          /\ shm.emergency_mode = 0 /\ shm.emergency_stop = 0 /\ shm.overload = 0
          /\ ~ViolatesBlockInvariant(shm) /\ shm.door_obstruction = 0 )
            => shm'.emergency_mode = 0 ]_vars

(***************************************************************************)
(* C26.  Every STATUS frame the car sends carries the status, the current  *)
(* floor and the destination floor that the block held together when       *)
(* post_status read it: the three are read under one hold of the mutex.    *)
(***************************************************************************)
C26_StatusFrameIsSnapshot ==
    [][ ( /\ Len(to_ctrl') = Len(to_ctrl) + 1
          /\ to_ctrl'[Len(to_ctrl')].type = "STATUS" )
          => /\ to_ctrl'[Len(to_ctrl')].status = shm.status
             /\ to_ctrl'[Len(to_ctrl')].toks = <<shm.current_floor, shm.destination_floor>>
      ]_vars

C26_Witness ==
    \E i \in 1..Len(to_ctrl) :
        /\ to_ctrl[i].type = "STATUS" /\ to_ctrl[i].status = "Between"
        /\ to_ctrl[i].toks = << <<"1">>, <<"3">> >>

(***************************************************************************)
(* C27.  As claimed: on a host without a controller, where the only        *)
(* writer of Opening over Closing besides the car is the safety monitor,   *)
(* the car's main thread never writes status Closed into a block whose     *)
(* status is Opening, in any mode.                                         *)
(***************************************************************************)
C27_OpeningNotOverwrittenByClosed ==
    [][ (StatusWrite /\ Top[2] = "Closed") => shm.status # "Opening" ]_vars

(***************************************************************************)
(* C29.  As claimed: whenever the car's main thread writes status Between, *)
(* the block's status just before the write is Closed, under every         *)
(* interleaving with the monitor, the panel and the controller's mirror.   *)
(***************************************************************************)
C29_BetweenOnlyOverClosed ==
    [][ (StatusWrite /\ Top[2] = "Between") => shm.status = "Closed" ]_vars

(***************************************************************************)
(* C30.  As claimed: when a call thread that answered CAR <name> finishes  *)
(* its enqueue step, a car is registered under that name and its queue     *)
(* holds both the call's src and its dst, whatever happened to the         *)
(* registry between the selection and the enqueue.                         *)
(***************************************************************************)
C30_AnsweredCallIsQueued ==
    [][ \A c \in CallConns :
            (conn[c].pc = "enqueue" /\ conn'[c].pc # "enqueue") =>
                LET i == find_registry(g_cars', conn[c].name)
                IN  /\ i >= 0
                    /\ in_queue(g_cars'[i].q, conn[c].src)
                    /\ in_queue(g_cars'[i].q, conn[c].dst) ]_vars

(***************************************************************************)
(* The floor codec alone: one registered car that covers every floor the   *)
(* codec accepts, and one thread of the controller that either formats an  *)
(* index as send_car does and parses the label back, or parses the label   *)
(* of a CALL as tcp_call_thread does and formats the index it queued.      *)
(***************************************************************************)
CodecCar == new_car(1, "A", <<"B", "9", "9">>, <<"9", "9", "9">>)

\* The indices the codec accepts: -99 .. -1 and 1 .. 999.
CodecIndices == { i \in CodecCar.lowest_floor .. CodecCar.highest_floor : i # 0 }

NonZeroDigits == Digits \ {"0"}

\* Decimal 1 .. 999 without leading zeros, and B followed by 1 .. 99.
CanonicalLabels ==
    LET one == { <<a>> : a \in NonZeroDigits }
        two == { <<a, b>> : a \in NonZeroDigits, b \in Digits }
        three == { <<a, b, c>> : a \in NonZeroDigits, b \in Digits, c \in Digits }
    IN  one \cup two \cup three \cup { <<"B">> \o l : l \in one \cup two }

\* Tokens of at most three characters that are not canonical.
OddLabels ==
    { <<>>, <<"0">>, <<"0", "0">>, <<"0", "7">>, <<"0", "0", "7">>, <<"B">>,
      <<"B", "0">>, <<"B", "0", "5">>, <<"b", "5">>, <<"+", "5">>, <<"-", "5">>,
      <<"1", "x">>, <<"x", "1">>, <<"B", "-", "1">> }

CodecInit ==
    /\ g_cars = [i \in Slots |-> IF i = 0 THEN CodecCar ELSE ZeroCar]
    /\ conn = [c \in ConnIds |->
                 IF c = 1 THEN [IdleConn EXCEPT !.pc = "car", !.name = "A"]
                 ELSE IF c = CallConn THEN [IdleConn EXCEPT !.pc = "first"]
                 ELSE IdleConn]
    /\ sent = <<>>
    /\ accepted = {}
    /\ g_car = NoCar
    /\ shm = NewBlock(NoCar.lowest)
    /\ to_car = <<>>
    /\ to_ctrl = <<>>
    /\ inputs = 0

\* send_car for a queue whose head is index: the FLOOR frame carries
\* index_handler(index).
CodecFormat(index) ==
    /\ conn[CallConn].pc = "first"
    /\ LET car == [g_cars[0] EXCEPT !.q = queue_floor(g_cars[0].q, index)]
       IN  /\ g_cars' = [g_cars EXCEPT ![0] = car]
           /\ sent' = send_car(car)
    /\ conn' = [conn EXCEPT ![CallConn].pc = "formatted"]
    /\ UNCHANGED <<accepted, shm, carvars>>

\* floor_num_handler on the label of the frame just sent.
CodecParse ==
    /\ conn[CallConn].pc = "formatted"
    /\ LET r == floor_num_handler(sent[1].label)
       IN  conn' = [conn EXCEPT ![CallConn].pc = IF r.ok THEN "parsed" ELSE "failed",
                                ![CallConn].src = r.out]
    /\ UNCHANGED <<g_cars, sent, accepted, shm, carvars>>

\* tcp_call_thread on the source token of a CALL: floor_num_handler, then
\* queue_floor and send_car for the index it produced.
CodecCall(label) ==
    /\ conn[CallConn].pc = "first"
    /\ LET r == floor_num_handler(label)
           car == [g_cars[0] EXCEPT !.q = queue_floor(g_cars[0].q, r.out)]
       IN  IF ~r.ok
           THEN /\ conn' = [conn EXCEPT ![CallConn].pc = "rejected",
                                        ![CallConn].curr_floor = label]
                /\ sent' = <<UnavailableFrame(CallConn)>>
                /\ UNCHANGED g_cars
           ELSE /\ conn' = [conn EXCEPT ![CallConn].pc = "called",
                                        ![CallConn].curr_floor = label,
                                        ![CallConn].src = r.out]
                /\ g_cars' = [g_cars EXCEPT ![0] = car]
                /\ sent' = send_car(car)
    /\ UNCHANGED <<accepted, shm, carvars>>

CodecNext ==
    \/ \E index \in CodecIndices : CodecFormat(index)
    \/ CodecParse
    \/ \E label \in CanonicalLabels \cup OddLabels : CodecCall(label)

CodecSpec == CodecInit /\ [][CodecNext]_vars

(***************************************************************************)
(* C25.  As claimed: for every index in -99..-1 and 1..999 the label that  *)
(* index_handler produces is parsed by floor_num_handler to the same       *)
(* index; for every canonical label the index that floor_num_handler       *)
(* produces is formatted by index_handler to the same label; no canonical  *)
(* label is rejected, and no accepted label is parsed to index 0.          *)
(***************************************************************************)
C25_CodecRoundTrip ==
    LET t == conn[CallConn]
    IN  /\ t.pc # "failed"
        /\ t.pc = "parsed" => t.src = g_cars[0].q[1]
        /\ t.pc = "rejected" => t.curr_floor \notin CanonicalLabels
        /\ t.pc = "called" =>
              /\ t.src # 0
              /\ t.src \in CodecIndices
              /\ t.curr_floor \in CanonicalLabels => sent[1].label = t.curr_floor

\* The longest label is formatted and parsed back.
C25_Witness ==
    /\ conn[CallConn].pc = "parsed"
    /\ sent = <<FloorFrame(1, <<"B", "9", "9">>)>>
    /\ conn[CallConn].src = 0 - 99

(***************************************************************************)
(* C31.  As claimed: in every controller state every floor in the queue of *)
(* an entry in use lies within that entry's [lowest_floor, highest_floor], *)
(* so that no FLOOR outside the registered range is sent.                  *)
(***************************************************************************)
C31_QueueWithinRange ==
    \A i \in Slots :
        g_cars[i].in_use = 1 =>
            \A k \in 1..Len(g_cars[i].q) :
                /\ g_cars[i].q[k] >= g_cars[i].lowest_floor
                /\ g_cars[i].q[k] <= g_cars[i].highest_floor

(***************************************************************************)
(* A connected car in normal mode whose controller sends three FLOOR       *)
(* frames, each for a higher floor than the one before, so that the floor  *)
(* a label names gives the order in which the frames were sent.  No safety *)
(* monitor and no panel run on the host.                                   *)
(***************************************************************************)
LatchLabels == << <<"2">>, <<"3">>, <<"4">> >>

LatchInit ==
    /\ g_cars = [i \in Slots |-> ZeroCar]
    /\ conn = [c \in ConnIds |-> IdleConn]
    /\ sent = <<>>
    /\ accepted = {}
    /\ g_car = StartedCar(<<"4">>)
    /\ shm = NewBlock(g_car.lowest)
    /\ to_car = <<>>
    /\ to_ctrl = <<>>
    /\ inputs = 0

\* The controller's next FLOOR frame.
LatchFloor ==
    /\ inputs < Len(LatchLabels)
    /\ PeerFloor(LatchLabels[inputs + 1])
    /\ inputs' = inputs + 1
    /\ UNCHANGED ctrlvars

LatchNext ==
    \/ MainStep
    \/ PauseStep
    \/ TcpStep
    \/ RxStep
    \/ TxStep
    \/ PeerStep
    \/ LatchFloor

LatchSpec == LatchInit /\ [][LatchNext]_vars

(***************************************************************************)
(* C32.  As claimed: when the car applies a latched pending destination,   *)
(* destination_floor does not hold the floor of a FLOOR frame received     *)
(* after the latched one: the floor applied is not older than the floor it *)
(* replaces.                                                               *)
(***************************************************************************)
C32_PendingNotOlderThanDestination ==
    [][ (ExistsPending /\ g_car.has_pending # 0) =>
            floor_num_handler(g_car.pending_floor).out >=
                floor_num_handler(shm.destination_floor).out ]_vars

\* The number of floors between the floors two labels name, with B1 next
\* to 1.
LabelDistance(from, to) ==
    FloorsAway([current_floor |-> from, destination_floor |-> to])

(***************************************************************************)
(* C33.  As claimed: every step that changes current_floor in the shared   *)
(* block moves it by exactly one floor, whoever takes the step.            *)
(***************************************************************************)
C33_CurrentFloorMovesOneFloor ==
    [][ shm'.current_floor # shm.current_floor =>
            LabelDistance(shm.current_floor, shm'.current_floor) = 1 ]_vars

(***************************************************************************)
(* An idle car with its safety monitor, no controller, and a panel on      *)
(* which only the close button is pressed.  No open_button press and no    *)
(* new destination ever reaches the car.                                   *)
(***************************************************************************)
ClosePress == Panel("close") /\ PanelInput /\ UNCHANGED ctrlvars

IdleNext ==
    \/ MainStep
    \/ PauseStep
    \/ MonitorStep
    \/ ClosePress

IdleSpec == CarInit /\ [][IdleNext]_vars

(***************************************************************************)
(* C34.  As claimed: a car in normal mode that stands Closed with          *)
(* current_floor = destination_floor and gets nothing but close_button     *)
(* presses stays Closed.                                                   *)
(***************************************************************************)
C34_ClosePressKeepsDoorsClosed ==
    (NormalMode /\ shm.current_floor = shm.destination_floor) => shm.status = "Closed"

(***************************************************************************)
(* C35.  As claimed: emergency mode is latched: no step of the car, the    *)
(* safety monitor, the controller or the panel takes emergency_mode from 1 *)
(* back to 0.                                                              *)
(***************************************************************************)
C35_EmergencyModeLatched ==
    [][ shm.emergency_mode = 1 => shm'.emergency_mode = 1 ]_vars

(***************************************************************************)
(* A car and its controller with a technician at the panel: the panel      *)
(* switches service mode on and off and presses the open button, and the   *)
(* connection may be cut from outside; no call arrives, so the receive     *)
(* thread gets no FLOOR and its only step is its end.                      *)
(***************************************************************************)
TripOperations == {"service_on", "service_off", "open"}

TripStep ==
    \E operation \in TripOperations : Panel(operation) /\ PanelInput /\ UNCHANGED ctrlvars

TripNext ==
    \/ MainStep
    \/ ServiceStep
    \/ ModeSleepStep
    \/ TcpStep
    \/ TxStep
    \/ LinkEndStep
    \/ ModeCtrlStep
    \/ TripStep
    \/ CutStep

TripSpec ==
    /\ LiveInit
    /\ [][TripNext]_vars
    /\ SF_vars(MainStep) /\ WF_vars(ServiceStep)
    /\ WF_vars(TcpStep) /\ WF_vars(TxStep)
    /\ WF_vars(LinkEndStep) /\ WF_vars(ModeCtrlStep)
    /\ SF_vars(ModeSleepStep)
    /\ []<>~Sleeping

(***************************************************************************)
(* C36.  As claimed: once the transmit thread of a connected car has ended *)
(* for service mode and the car is back in normal mode, the car eventually *)
(* has a new connection with a running transmit thread (it registered      *)
(* again and reports its status), unless it leaves normal mode again.      *)
(***************************************************************************)
C36_ReconnectsAfterServiceMode ==
    (g_car.tx = "done" /\ NormalMode) ~>
        ((g_car.link = "up" /\ g_car.tx = "wait") \/ ~NormalMode)

(***************************************************************************)
(* C37.  As claimed: each Between step the car completes puts              *)
(* current_floor one floor nearer to destination_floor, on a floor of the  *)
(* car's range that is not index 0, and sets status Closed.                *)
(***************************************************************************)
C37_MoveStepsOneFloorToDestination ==
    [][ (Move /\ shm.status = "Between") =>
            LET next == floor_num_handler(shm'.current_floor).out
            IN  /\ LabelDistance(shm.current_floor, shm'.current_floor) = 1
                /\ LabelDistance(shm'.current_floor, shm.destination_floor) =
                       LabelDistance(shm.current_floor, shm.destination_floor) - 1
                /\ next # 0
                /\ next >= floor_num_handler(g_car.lowest).out
                /\ next <= floor_num_handler(g_car.highest).out
                /\ shm'.status = "Closed" ]_vars

\* The slots in use that connection c owns.
OwnedBy(c) == { i \in Slots : g_cars[i].in_use = 1 /\ g_cars[i].socket_fd = c }

C39_EveryWriteBroadcasts ==
    [][ (ChangedFields(shm, shm') # {} /\ shm.cond = "waiting") =>
            shm'.cond = "signalled" ]_vars

(***************************************************************************)
(* A car at rest in service mode on any floor of its range, without        *)
(* controller and safety monitor; the technician presses up or down once   *)
(* and nothing else reaches the car.                                       *)
(***************************************************************************)
RestInit ==
    /\ g_cars = [i \in Slots |-> ZeroCar]
    /\ conn = [c \in ConnIds |-> IdleConn]
    /\ sent = <<>>
    /\ accepted = {}
    /\ g_car = StartedCar(<<"3">>)
    /\ \E floor \in FloorLabels :
           shm = [NewBlock(g_car.lowest) EXCEPT !.individual_service_mode = 1,
                                                !.current_floor = floor,
                                                !.destination_floor = floor]
    /\ to_car = <<>>
    /\ to_ctrl = <<>>
    /\ inputs = 0

\* The one press of up or down.
RestPress ==
    /\ inputs = 0
    /\ inputs' = 1
    /\ \E operation \in {"up", "down"} : Panel(operation)
    /\ UNCHANGED ctrlvars

RestNext ==
    \/ MainStep
    \/ ServiceStep
    \/ PauseStep
    \/ RestPress

RestSpec ==
    /\ RestInit
    /\ [][RestNext]_vars
    /\ WF_vars(MainStep) /\ WF_vars(ServiceStep) /\ WF_vars(PauseStep)

(***************************************************************************)
(* C40.  As claimed: after the one press of up or down the car in service  *)
(* mode eventually rests with status Closed and destination_floor =        *)
(* current_floor, whichever floor of its range it stood on.                *)
(***************************************************************************)
C40_ServiceMoveComesToRest ==
    (inputs = 1 /\ shm.destination_floor # shm.current_floor)
        ~> (shm.status = "Closed" /\ shm.destination_floor = shm.current_floor)

====
